---- MODULE Spec2Model ----
(***************************************************************************)
(* A model of the kvm control-plane library (teliosdev/kvm).               *)
(*                                                                         *)
(*  - Core: the per-vCPU control page (sys::Run), its decoding into a      *)
(*    Pause (core/pause.rs) and its re-encoding (Core::set_pause,          *)
(*    merge_into in core/mod.rs).                                          *)
(*  - Machine: capability checks (capability/mod.rs, machine/mod.rs),      *)
(*    the gated operations and the ioeventfd / irqfd handles with their    *)
(*    Drop implementations (machine/ioeventfd.rs, machine/irqfd.rs).       *)
(*  - Values: guest addresses of I/O (core/ioaddress.rs), the API version  *)
(*    (system/mod.rs) and the lifecycle states (core/mpstate.rs).          *)
(*  - Core channels: the ioeventfd handles of a core (core/mod.rs,         *)
(*    core/ioeventfd.rs, eventfd/), notifications and their readers.       *)
(*  - Memory slabs (memory.rs) and the lifecycle state of a core.          *)
(*                                                                         *)
(* Multi-byte fields of the kernel structures are kept as the tuple of     *)
(* their bytes in memory; a field read is a slice of the union's bytes and *)
(* a field write an overlay, so that the aliasing of the union's members   *)
(* is part of the model.                                                   *)
(***************************************************************************)
EXTENDS Integers, Sequences, FiniteSets, TLC

VARIABLES
    run,          \* the mapped control page of the core (sys::Run)
    decoded,      \* the Pause the caller holds from the last Core::pause()
    core_status,  \* "live", or "panicked" once a conversion has panicked
    last,         \* the last library call made: its name and argument
    caps,         \* the kernel's answer to kvm_check_extension, per capability
    calls,        \* the kernel calls the last machine call issued, in order
    handles,      \* the notification handles returned to the caller
    open_fds,     \* the event descriptors currently open
    cfg,          \* the configuration the library was built with
    counter,      \* the kernel's 64-bit counter of the event descriptor read
    stream,       \* the buffer of the notification stream polled
    slab,         \* the bytes of the mapped memory behind a Slab
    mp_state      \* the kernel's lifecycle state of the core

vars ==
    <<run, decoded, core_status, last, caps, calls, handles, open_fds,
      cfg, counter, stream, slab, mp_state>>
coreVars == <<run, decoded, core_status>>
machineVars == <<caps, calls, handles, open_fds>>
hostVars == <<cfg, counter, stream, slab, mp_state>>

----------------------------------------------------------------------------
(* Bounds of the model. *)

\* header seeds: the non-exit fields of the initial page are seed + k
MaxSeed == 1
\* tags beyond the ones the kernel defines today that the page may carry
MaxFutureTags == 2
\* the largest answer of kvm_check_extension
MaxCapValue == 2
\* the largest guest address passed to a call
MaxAddress == 1
\* the number of notification handles created in a run
MaxHandles == 2
\* the largest offset added to or subtracted from a guest address
MaxOffset == 2
\* the highest API version a kernel reports
MaxVersion == 13
\* the number of lifecycle states of later kernels, after the nine known
MaxFutureStates == 2
\* the calls of Core::remove_ioeventfd made for one handle
MaxRemoves == 2
\* the notifications that accumulate in an eventfd before it is read
MaxCounter == 2
\* the length of the longest slab
MaxSlabLen == 3

\* the largest number of pages of a slot whose dirty log is asked for
MaxDirtyPages == 20
\* the pages of the longest slice that backs a region
MaxRegionPages == 2

----------------------------------------------------------------------------
(* Kernel ABI constants used by the library (kvm_sys). *)

KVM_EXIT_UNKNOWN == 0
KVM_EXIT_EXCEPTION == 1
KVM_EXIT_IO == 2
KVM_EXIT_HYPERCALL == 3
KVM_EXIT_TPR_ACCESS == 12
KVM_EXIT_MMIO == 6
KVM_EXIT_SHUTDOWN == 8
KVM_EXIT_FAIL_ENTRY == 9
KVM_EXIT_INTERNAL_ERROR == 17
KVM_EXIT_SYSTEM_EVENT == 24
KVM_EXIT_IOAPIC_EOI == 26
KVM_EXIT_S390_SIEIC == 13
KVM_EXIT_S390_RESET == 14
KVM_EXIT_DCR == 15
KVM_EXIT_OSI == 18
KVM_EXIT_PAPR_HCALL == 19
KVM_EXIT_S390_UCONTROL == 20
KVM_EXIT_S390_TSCH == 22
KVM_EXIT_EPR == 23
KVM_EXIT_S390_STSI == 25

KVM_MEM_LOG_DIRTY_PAGES == 1
KVM_MEM_READONLY == 2
KVM_EXIT_IO_IN == 0
KVM_EXIT_IO_OUT == 1

\* sizes of the byte arrays merge_into and Pause::into spell out
ExitLen == 256
Pad1Len == 6
Pad2Len == 2048
ExpectedApiVersion == 12

----------------------------------------------------------------------------
(* Bytes. *)

ByteVals == {0, 1, 2, 255}

Fill(n, b) == [i \in 1..n |-> b]

\* an array of n bytes that all hold b ([b; n]), kept as its length and
\* its byte
Repeat(b, n) == [len |-> n, byte |-> b]

\* what the bytes a union literal leaves uninitialised may hold
JunkVals == {0, 255}

\* the n bytes of s that start at byte offset off (0-based)
Slice(s, off, n) == SubSeq(s, off + 1, off + n)

\* s with the bytes bs written at byte offset off (0-based)
Overlay(s, off, bs) ==
    SubSeq(s, 1, off) \o bs \o SubSeq(s, off + Len(bs) + 1, Len(s))

\* an n-byte value whose bytes all differ, for inputs built from a seed
Word(n, s) == [i \in 1..n |-> (16 * s + i) % 256]

----------------------------------------------------------------------------
(* Pause: the decoded exit (core/pause.rs). *)

Unknown(v) == [kind |-> "Unknown", reason |-> v]
FailEntry(v) == [kind |-> "FailEntry", reason |-> v]
Exception(exception, error_code) ==
    [kind |-> "Exception", exception |-> exception, error_code |-> error_code]
Io(direction, size, port, count, data_offset) ==
    [kind |-> "Io", direction |-> direction, size |-> size, port |-> port,
     count |-> count, data_offset |-> data_offset]
Mmio(address, data, length, is_write) ==
    [kind |-> "Mmio", address |-> address, data |-> data, length |-> length,
     is_write |-> is_write]
SystemEvent(kind, flags) ==
    [kind |-> "SystemEvent", event |-> kind, flags |-> flags]
InternalError(suberror) == [kind |-> "InternalError", suberror |-> suberror]
Shutdown == [kind |-> "Shutdown"]
Invalid(v) == [kind |-> "Invalid", tag |-> v]

\* the conversion did not return: unreachable!() was reached
Panic == [kind |-> "Panic"]
\* the caller holds no Pause
NoPause == [kind |-> "None"]

RecognizedTags ==
    {KVM_EXIT_UNKNOWN, KVM_EXIT_FAIL_ENTRY, KVM_EXIT_EXCEPTION, KVM_EXIT_IO,
     KVM_EXIT_MMIO, KVM_EXIT_SYSTEM_EVENT, KVM_EXIT_INTERNAL_ERROR,
     KVM_EXIT_SHUTDOWN}

Tags ==
    RecognizedTags \cup {KVM_EXIT_HYPERCALL, KVM_EXIT_TPR_ACCESS}
        \cup (KVM_EXIT_IOAPIC_EOI + 1 .. KVM_EXIT_IOAPIC_EOI + MaxFutureTags)

\* impl From<u8> for Direction
Direction_from(v) ==
    IF v = KVM_EXIT_IO_IN THEN "In"
    ELSE IF v = KVM_EXIT_IO_OUT THEN "Out"
    ELSE "unreachable"

\* impl Into<u8> for Direction
Direction_into(d) == IF d = "In" THEN KVM_EXIT_IO_IN ELSE KVM_EXIT_IO_OUT

\* impl From<sys::Run> for Pause, the arms of the recognized tags: the
\* union is read under the member the tag selects.
RecognizedArm(r) ==
    LET e == r.exit IN
    CASE r.exit_reason = KVM_EXIT_UNKNOWN -> Unknown(Slice(e, 0, 8))
      [] r.exit_reason = KVM_EXIT_FAIL_ENTRY -> FailEntry(Slice(e, 0, 8))
      [] r.exit_reason = KVM_EXIT_EXCEPTION ->
            Exception(Slice(e, 0, 4), Slice(e, 4, 4))
      [] r.exit_reason = KVM_EXIT_IO ->
            IF Direction_from(e[1]) = "unreachable" THEN Panic
            ELSE Io(Direction_from(e[1]), e[2], Slice(e, 2, 2),
                    Slice(e, 4, 4), Slice(e, 8, 8))
      [] r.exit_reason = KVM_EXIT_MMIO ->
            Mmio(Slice(e, 0, 8), Slice(e, 8, 8), Slice(e, 16, 4), e[21] # 0)
      [] r.exit_reason = KVM_EXIT_SYSTEM_EVENT ->
            SystemEvent(Slice(e, 0, 4), Slice(e, 8, 8))
      [] r.exit_reason = KVM_EXIT_INTERNAL_ERROR ->
            InternalError(Slice(e, 0, 4))
      [] r.exit_reason = KVM_EXIT_SHUTDOWN -> Shutdown

\* a decoder whose catch-all arm is unreachable!(), as in MpState::from
Pause_from_NoCatchAll(r) ==
    IF r.exit_reason \in RecognizedTags THEN RecognizedArm(r) ELSE Panic

\* impl From<sys::Run> for Pause, with its catch-all arm
Pause_from(r) ==
    IF r.exit_reason \in RecognizedTags
    THEN RecognizedArm(r)
    ELSE Invalid(r.exit_reason)

\* the union's bytes, all equal, for each byte value
UnionFill == [b \in 0..255 |-> Fill(ExitLen, b)]

\* a union literal that names one member: the member's bytes, then the
\* bytes the literal leaves uninitialised
UnionOf(member, junk) ==
    member \o SubSeq(UnionFill[junk], Len(member) + 1, ExitLen)

\* the encoder of a recognized variant: its tag and its member's bytes
MemberOf(p, junk) ==
    CASE p.kind = "Unknown" -> [code |-> KVM_EXIT_UNKNOWN, member |-> p.reason]
      [] p.kind = "FailEntry" ->
            [code |-> KVM_EXIT_FAIL_ENTRY, member |-> p.reason]
      [] p.kind = "Exception" ->
            [code |-> KVM_EXIT_EXCEPTION,
             member |-> p.exception \o p.error_code]
      [] p.kind = "Io" ->
            [code |-> KVM_EXIT_IO,
             member |-> <<Direction_into(p.direction), p.size>>
                        \o p.port \o p.count \o p.data_offset]
      [] p.kind = "Mmio" ->
            [code |-> KVM_EXIT_MMIO,
             member |-> p.address \o p.data \o p.length
                        \o <<IF p.is_write THEN 1 ELSE 0>>]
      [] p.kind = "SystemEvent" ->
            [code |-> KVM_EXIT_SYSTEM_EVENT,
             member |-> p.event \o Fill(4, junk) \o p.flags]
      [] p.kind = "InternalError" ->
            [code |-> KVM_EXIT_INTERNAL_ERROR,
             member |-> p.suberror \o Fill(4, 0) \o Fill(128, 0)]
      [] p.kind = "Shutdown" ->
            [code |-> KVM_EXIT_SHUTDOWN, member |-> UnionFill[0]]
      [] p.kind = "Invalid" -> [code |-> p.tag, member |-> UnionFill[0]]

\* an encoder that writes the Io port and count in each other's place
Pause_into_IoSwapped(p, junk) ==
    IF p.kind = "Io"
    THEN [code |-> KVM_EXIT_IO,
          exit |-> UnionOf(<<Direction_into(p.direction), p.size>>
                           \o <<0, 0>> \o p.port \o Fill(2, 0)
                           \o p.data_offset, junk)]
    ELSE [code |-> MemberOf(p, junk).code,
          exit |-> UnionOf(MemberOf(p, junk).member, junk)]

\* impl Into<(u32, sys::Exit)> for Pause.  A union literal initialises one
\* member; the padding inside that member and the bytes after it are not
\* initialised, and hold junk.
Pause_into(p, junk) ==
    [code |-> MemberOf(p, junk).code,
     exit |-> UnionOf(MemberOf(p, junk).member, junk)]

\* fn merge_into(run, pause) -> sys::Run
merge_into(r, p, junk) ==
    LET ce == Pause_into(p, junk) IN
    [request_interrupt_window |-> r.request_interrupt_window,
     immediate_exit |-> r.immediate_exit,
     pad1 |-> Repeat(0, Pad1Len),
     exit_reason |-> ce.code,
     ready_for_interrupt_injection |-> r.ready_for_interrupt_injection,
     if_flag |-> r.if_flag,
     flags |-> r.flags,
     cr8 |-> r.cr8,
     apic_base |-> r.apic_base,
     exit |-> ce.exit,
     kvm_valid_regs |-> r.kvm_valid_regs,
     kvm_dirty_regs |-> r.kvm_dirty_regs,
     pad2 |-> Repeat(0, Pad2Len)]

----------------------------------------------------------------------------
(* Inputs of the core model. *)

\* offsets at which an initial payload differs from its fill byte: the Io
\* direction, the end of the first 8-byte field, the Mmio is_write byte and
\* the last byte of the union
PayloadOffsets == {0, 7, 20, 255}

Payloads ==
    {Overlay(UnionFill[f], off, <<v>>) :
        f \in ByteVals, off \in PayloadOffsets, v \in ByteVals}

\* a control page as the kernel may leave it: every field but the tag and
\* the union is seed + k (all different), the padding is filled with seed
Page(seed, tag, payload) ==
    [request_interrupt_window |-> seed,
     immediate_exit |-> seed + 1,
     pad1 |-> Repeat(seed, Pad1Len),
     exit_reason |-> tag,
     ready_for_interrupt_injection |-> seed + 2,
     if_flag |-> seed + 3,
     flags |-> seed + 4,
     cr8 |-> seed + 5,
     apic_base |-> seed + 6,
     exit |-> payload,
     kvm_valid_regs |-> seed + 7,
     kvm_dirty_regs |-> seed + 8,
     pad2 |-> Repeat(seed, Pad2Len)]

Seeds == 0..MaxSeed

\* the Pause values a caller passes to set_pause
PauseInputs ==
    UNION {
        {Unknown(Word(8, s)), FailEntry(Word(8, s)),
         Exception(Word(4, s), Word(4, s + 1)),
         Io("In", s + 1, Word(2, s), Word(4, s + 1), Word(8, s + 2)),
         Io("Out", s + 1, Word(2, s), Word(4, s + 1), Word(8, s + 2)),
         Mmio(Word(8, s), Word(8, s + 1), Word(4, s + 2), TRUE),
         Mmio(Word(8, s), Word(8, s + 1), Word(4, s + 2), FALSE),
         SystemEvent(Word(4, s), Word(8, s + 1)),
         InternalError(Word(4, s))} : s \in Seeds}
    \cup {Shutdown} \cup {Invalid(t) : t \in Tags}

----------------------------------------------------------------------------
(* Core operations (core/mod.rs). *)

\* the record of a call: its name and argument
Called(op, arg) ==
    [op |-> op, arg |-> arg, prev_op |-> "none", prev_arg |-> NoPause]

\* the record of a call that also keeps the call made just before it
CalledAfter(op, arg) ==
    [op |-> op, arg |-> arg, prev_op |-> last.op, prev_arg |-> last.arg]

\* Core::pause
pause ==
    /\ core_status = "live"
    /\ decoded' = Pause_from(run)
    /\ core_status' = IF Pause_from(run) = Panic THEN "panicked" ELSE "live"
    /\ last' = CalledAfter("pause", NoPause)
    /\ UNCHANGED <<run, machineVars, hostVars>>

\* Core::set_pause
set_pause(p, junk) ==
    /\ core_status = "live"
    /\ run' = merge_into(run, p, junk)
    /\ decoded' = NoPause
    /\ last' = Called("set_pause", p)
    /\ UNCHANGED <<core_status, machineVars, hostVars>>

\* the caller passes a Pause of its own making
SetPauseNew == \E p \in PauseInputs, junk \in JunkVals : set_pause(p, junk)

\* the caller passes back, unchanged, the Pause it got from Core::pause
SetPauseDecoded ==
    /\ decoded.kind \notin {"None", "Panic"}
    /\ \E junk \in JunkVals : set_pause(decoded, junk)

InitMachineIdle ==
    /\ caps = <<>>
    /\ calls = <<>>
    /\ handles = <<>>
    /\ open_fds = {}

\* the default build, and a host on which nothing of it is in use
InitHostIdle ==
    /\ cfg = [linux |-> FALSE, overflow_checks |-> TRUE]
    /\ counter = 0
    /\ stream = [len |-> 0, buf |-> Fill(8, 0)]
    /\ slab = <<>>
    /\ mp_state = 0

InitCore ==
    /\ \E seed \in Seeds, tag \in Tags, payload \in Payloads :
            run = Page(seed, tag, payload)
    /\ decoded = NoPause
    /\ core_status = "live"
    /\ last = [op |-> "new", arg |-> NoPause,
               prev_op |-> "none", prev_arg |-> NoPause]
    /\ InitMachineIdle
    /\ InitHostIdle

NextCore == pause \/ SetPauseNew \/ SetPauseDecoded

SpecCore == InitCore /\ [][NextCore]_vars

----------------------------------------------------------------------------
(* Capabilities (capability/mod.rs, machine/mod.rs). *)

\* the kernel capabilities the library asks about, under the names of
\* machine::Capability (capability::CapabilityKind has the same ones and
\* IrqFd)
Capabilities ==
    {"IrqChip", "SetTssAddress", "SetIdentityMapAddress", "IoEventFd", "IrqFd"}

\* what kvm_check_extension may answer: 0 (absent), 1, or a larger number
CapValues == 0..MaxCapValue

\* the guest addresses passed to the address-setup and registration calls
Addresses == 0..MaxAddress

\* results of the library's calls
Ok(v) == [kind |-> "Ok", value |-> v]
MachineApiError(req) == [kind |-> "MachineApiError", req |-> req]
MissingExtensionError(cap) == [kind |-> "MissingExtensionError", cap |-> cap]
KvmCapabilityError(req) == [kind |-> "KvmCapabilityError", req |-> req]
KvmCapabilityFailError(cap) == [kind |-> "KvmCapabilityFailError", cap |-> cap]

\* a kernel call as the machine descriptor sees it: its name, its argument
\* and the value the ioctl returned (-1: the call failed)
KernelCall(call, arg, ret) == [call |-> call, arg |-> arg, ret |-> ret]

\* the ioctl wrappers of kvm_sys turn a return of -1 into Err(errno)
IoctlFailed(ret) == ret = -1

\* what the kernel may return to kvm_check_extension(cap): its answer for
\* the capability, or a failure of the call itself
QueryRets(cap) == {caps[cap], -1}

\* what the kernel may return to a call that succeeds or fails
CallRets == {0, -1}

\* Capability::check_capability
check_capability(ret) ==
    IF IoctlFailed(ret)
    THEN KvmCapabilityError("kvm_check_extension")
    ELSE Ok(ret)

\* an ensure that accepts every non-zero answer
ensure_capability_NonZero(kind, ret) ==
    IF check_capability(ret).kind # "Ok" THEN check_capability(ret)
    ELSE IF check_capability(ret).value = 0
         THEN KvmCapabilityFailError(kind)
         ELSE Ok("unit")

\* Capability::ensure_capability
ensure_capability(kind, ret) ==
    IF check_capability(ret).kind # "Ok" THEN check_capability(ret)
    ELSE IF check_capability(ret).value # 1
         THEN KvmCapabilityFailError(kind)
         ELSE Ok("unit")

\* Machine::extension
extension(ret) ==
    IF IoctlFailed(ret)
    THEN MachineApiError("kvm_check_extension")
    ELSE Ok(ret)

\* NonZeroU32::new(v as u32), on the non-negative answers of the query (a
\* negative return of the ioctl is a failure of the call)
NonZeroU32_new(v) == IF v = 0 THEN [kind |-> "None"] ELSE [kind |-> "Some", value |-> v]

\* an assert that takes a failed query for a present capability
assert_extension_ErrorIsOk(cap, ret) ==
    IF extension(ret).kind # "Ok" THEN Ok(1)
    ELSE IF NonZeroU32_new(extension(ret).value).kind = "None"
         THEN MissingExtensionError(cap)
         ELSE Ok(NonZeroU32_new(extension(ret).value).value)

\* Machine::assert_extension
assert_extension(cap, ret) ==
    IF extension(ret).kind # "Ok"
    THEN MachineApiError("kvm_check_extension")
    ELSE IF NonZeroU32_new(extension(ret).value).kind = "None"
         THEN MissingExtensionError(cap)
         ELSE Ok(NonZeroU32_new(extension(ret).value).value)

\* the record of a machine call: its name, argument and result
Returned(op, arg, result) == [op |-> op, arg |-> arg, result |-> result]

\* a caller asks Capability::ensure_capability for a capability
EnsureCapability ==
    \E kind \in Capabilities : \E ret \in QueryRets(kind) :
        /\ calls' = <<KernelCall("kvm_check_extension", kind, ret)>>
        /\ last' = Returned("ensure_capability", kind,
                            ensure_capability(kind, ret))
        /\ UNCHANGED <<coreVars, caps, handles, open_fds, hostVars>>

\* a caller asks Machine::assert_extension for a capability
AssertExtension ==
    \E cap \in Capabilities : \E ret \in QueryRets(cap) :
        /\ calls' = <<KernelCall("kvm_check_extension", cap, ret)>>
        /\ last' = Returned("assert_extension", cap,
                            assert_extension(cap, ret))
        /\ UNCHANGED <<coreVars, caps, handles, open_fds, hostVars>>

\* self.assert_extension(cap).and_then(|_| kernel call): the shape of the
\* gated operations.  ret is the kernel's answer to the query, kret its
\* return to the gated call.
Gated(op, cap, arg, call, ret, kret) ==
    /\ IF assert_extension(cap, ret).kind = "Ok"
       THEN /\ calls' = <<KernelCall("kvm_check_extension", cap, ret),
                          KernelCall(call, arg, kret)>>
            /\ last' = Returned(op, arg,
                                IF IoctlFailed(kret)
                                THEN MachineApiError(call)
                                ELSE Ok("unit"))
       ELSE /\ calls' = <<KernelCall("kvm_check_extension", cap, ret)>>
            /\ last' = Returned(op, arg, assert_extension(cap, ret))
    /\ UNCHANGED <<coreVars, caps, handles, open_fds, hostVars>>

\* the same operation with the kernel call made before the check's result
\* is looked at
Ungated(op, cap, arg, call, ret, kret) ==
    /\ calls' = <<KernelCall("kvm_check_extension", cap, ret),
                  KernelCall(call, arg, kret)>>
    /\ last' = Returned(op, arg,
                        IF assert_extension(cap, ret).kind # "Ok"
                        THEN assert_extension(cap, ret)
                        ELSE IF IoctlFailed(kret)
                             THEN MachineApiError(call)
                             ELSE Ok("unit"))
    /\ UNCHANGED <<coreVars, caps, handles, open_fds, hostVars>>

create_irqchip_Ungated ==
    \E ret \in QueryRets("IrqChip"), kret \in CallRets :
        Ungated("create_irqchip", "IrqChip", "none", "kvm_create_irqchip",
                ret, kret)

\* Machine::create_irqchip
create_irqchip ==
    \E ret \in QueryRets("IrqChip"), kret \in CallRets :
        Gated("create_irqchip", "IrqChip", "none", "kvm_create_irqchip",
              ret, kret)

\* Machine::set_tss_address
set_tss_address ==
    \E address \in Addresses :
        \E ret \in QueryRets("SetTssAddress"), kret \in CallRets :
            Gated("set_tss_address", "SetTssAddress", address,
                  "kvm_set_tss_addr", ret, kret)

\* Machine::set_identity_address
set_identity_address ==
    \E address \in Addresses :
        \E ret \in QueryRets("SetIdentityMapAddress"), kret \in CallRets :
            Gated("set_identity_address", "SetIdentityMapAddress", address,
                  "kvm_set_identity_map_addr", ret, kret)

\* the control page of a core no call is made on
InitCoreIdle ==
    /\ run = Page(0, KVM_EXIT_UNKNOWN, UnionFill[0])
    /\ decoded = NoPause
    /\ core_status = "live"

InitGate ==
    /\ caps \in [Capabilities -> CapValues]
    /\ calls = <<>>
    /\ last = Returned("new", "none", Ok("unit"))
    /\ handles = <<>>
    /\ open_fds = {}
    /\ InitCoreIdle
    /\ InitHostIdle

NextGate ==
    \/ EnsureCapability
    \/ AssertExtension
    \/ create_irqchip
    \/ set_tss_address
    \/ set_identity_address

SpecGate == InitGate /\ [][NextGate]_vars

----------------------------------------------------------------------------
(* Notification channels (machine/mod.rs, machine/ioeventfd.rs,            *)
(* machine/irqfd.rs).                                                      *)

\* bitflags are kept as the set of the flags that are set; | is the union
IoEventFdFlagInputs == {{}, {"PIO", "DATAMATCH"}}
IrqFdFlagInputs == {{}, {"RESAMPLE"}}
\* the registration keys the callers pass
IoAddresses == {0, 1}
Lengths == {4}
Datamatches == {0}
Lines == {0, 1}

\* what is left of a handle once it is dropped: its kind and the count of
\* the deassign calls issued for it, n of them by the drop
Dropped(handle, n) ==
    [kind |-> handle.kind, state |-> "dropped",
     deassigns |-> handle.deassigns + n]

CreateIoEventFdError == [kind |-> "CreateIoEventFdError"]
CreateIrqFdError == [kind |-> "CreateIrqFdError"]

\* the descriptor numbers an eventfd may get
Fds == 1..MaxHandles

\* eventfd(2) returns the lowest descriptor that is not open
NewFd == CHOOSE fd \in Fds \ open_fds : \A o \in Fds \ open_fds : fd <= o

\* Machine::ioeventfd_mod: the kernel call it issues and what it returns
ioeventfd_mod(addr, len, datamatch, flags, fd, kret) ==
    [issued |-> KernelCall("kvm_ioeventfd",
                           [addr |-> addr, len |-> len,
                            datamatch |-> datamatch, fd |-> fd,
                            flags |-> flags], kret),
     result |-> IF IoctlFailed(kret)
                THEN MachineApiError("kvm_ioeventfd")
                ELSE Ok("unit")]

\* Machine::irqfd_mod, which Drop for IrqFd calls: the kernel call it
\* issues and what it returns
irqfd_mod(gsi, flags, fd, kret) ==
    [issued |-> KernelCall("kvm_irqfd",
                           [gsi |-> gsi, fd |-> fd, flags |-> flags], kret),
     result |-> IF IoctlFailed(kret)
                THEN MachineApiError("kvm_irqfd")
                ELSE Ok("unit")]

\* the calls among cs that deassign the registration of handle h
DeassignsOf(h, cs) ==
    {i \in DOMAIN cs :
        IF h.kind = "IoEventFd"
        THEN /\ cs[i].call = "kvm_ioeventfd"
             /\ "DEASSIGN" \in cs[i].arg.flags
             /\ cs[i].arg.fd = h.fd
             /\ cs[i].arg.addr = h.address
             /\ cs[i].arg.len = h.length
             /\ cs[i].arg.datamatch = h.data
        ELSE /\ cs[i].call = "kvm_irqfd"
             /\ "DEASSIGN" \in cs[i].arg.flags
             /\ cs[i].arg.fd = h.fd
             /\ cs[i].arg.gsi = h.gsi}

\* the close(2) of a descriptor when the File that owns it is dropped; what
\* it returns is ignored
CloseOf(fd) == KernelCall("close", fd, 0)

\* a create that keeps the descriptor open when the registration fails
create_ioeventfd_LeaksOnFailure(address, length, data, flags, made, kret) ==
    LET args == [address |-> address, length |-> length, data |-> data,
                 flags |-> flags]
        m == ioeventfd_mod(address, length, data, flags, NewFd, kret)
    IN
    /\ Len(handles) < MaxHandles
    /\ Fds \ open_fds # {}
    /\ IF ~made
       THEN /\ calls' = <<>>
            /\ last' = Returned("create_ioeventfd", args, CreateIoEventFdError)
            /\ UNCHANGED <<handles, open_fds>>
       ELSE
            /\ calls' = <<m.issued>>
            /\ IF m.result.kind = "Ok"
               THEN /\ handles' = Append(handles,
                            [kind |-> "IoEventFd", address |-> address,
                             length |-> length, data |-> data,
                             flags |-> flags, fd |-> NewFd,
                             state |-> "live", deassigns |-> 0])
                    /\ open_fds' = open_fds \cup {NewFd}
                    /\ last' = Returned("create_ioeventfd", args,
                                        Ok(Len(handles) + 1))
               ELSE /\ last' = Returned("create_ioeventfd", args, m.result)
                    /\ open_fds' = open_fds \cup {NewFd}
                    /\ UNCHANGED handles
    /\ UNCHANGED <<coreVars, caps, hostVars>>

\* Machine::create_ioeventfd.  made: IoEventFd::build() got a descriptor;
\* kret: the kernel's return to the registration.
create_ioeventfd(address, length, data, flags, made, kret) ==
    LET args == [address |-> address, length |-> length, data |-> data,
                 flags |-> flags]
        m == ioeventfd_mod(address, length, data, flags, NewFd, kret)
    IN
    /\ Len(handles) < MaxHandles
    /\ Fds \ open_fds # {}
    /\ IF ~made
       THEN /\ calls' = <<>>
            /\ last' = Returned("create_ioeventfd", args, CreateIoEventFdError)
            /\ UNCHANGED <<handles, open_fds>>
       ELSE \* on a failure the File is dropped, which closes the descriptor
            /\ calls' = IF m.result.kind = "Ok" THEN <<m.issued>>
                        ELSE <<m.issued, CloseOf(NewFd)>>
            /\ IF m.result.kind = "Ok"
               THEN /\ handles' = Append(handles,
                            [kind |-> "IoEventFd", address |-> address,
                             length |-> length, data |-> data,
                             flags |-> flags, fd |-> NewFd,
                             state |-> "live", deassigns |-> 0])
                    /\ open_fds' = open_fds \cup {NewFd}
                    /\ last' = Returned("create_ioeventfd", args,
                                        Ok(Len(handles) + 1))
               ELSE /\ last' = Returned("create_ioeventfd", args, m.result)
                    /\ UNCHANGED <<handles, open_fds>>
    /\ UNCHANGED <<coreVars, caps, hostVars>>

CreateIoEventFd ==
    \E address \in IoAddresses, length \in Lengths, data \in Datamatches,
       flags \in IoEventFdFlagInputs, made \in BOOLEAN, kret \in CallRets :
        create_ioeventfd(address, length, data, flags, made, kret)

\* a release that leaves the registration with the kernel
IoEventFd_drop_NoDeassign(h, kret) ==
    /\ h \in DOMAIN handles
    /\ handles[h].kind = "IoEventFd"
    /\ handles[h].state = "live"
    /\ calls' = <<CloseOf(handles[h].fd)>>
    /\ handles' = [handles EXCEPT ![h] = Dropped(@, 0)]
    /\ open_fds' = open_fds \ {handles[h].fd}
    /\ last' = Returned("drop", handles[h], Ok("unit"))
    /\ UNCHANGED <<coreVars, caps, hostVars>>

\* a release that closes the descriptor before it deassigns
IoEventFd_drop_CloseFirst(h, kret) ==
    LET m == ioeventfd_mod(handles[h].address, handles[h].length,
                           handles[h].data,
                           handles[h].flags \cup {"DEASSIGN"},
                           handles[h].fd, kret)
    IN
    /\ h \in DOMAIN handles
    /\ handles[h].kind = "IoEventFd"
    /\ handles[h].state = "live"
    /\ calls' = <<CloseOf(handles[h].fd), m.issued>>
    /\ handles' = [handles EXCEPT
            ![h] = Dropped(@, Cardinality(DeassignsOf(@, calls')))]
    /\ open_fds' = open_fds \ {handles[h].fd}
    /\ last' = Returned("drop", handles[h], Ok("unit"))
    /\ UNCHANGED <<coreVars, caps, hostVars>>

\* impl Drop for IoEventFd, then the drop of its fields, of which the File
\* closes the descriptor.  The result of the deassign call is discarded.
IoEventFd_drop(h, kret) ==
    LET m == ioeventfd_mod(handles[h].address, handles[h].length,
                           handles[h].data,
                           handles[h].flags \cup {"DEASSIGN"},
                           handles[h].fd, kret)
    IN
    /\ h \in DOMAIN handles
    /\ handles[h].kind = "IoEventFd"
    /\ handles[h].state = "live"
    /\ calls' = <<m.issued, CloseOf(handles[h].fd)>>
    /\ handles' = [handles EXCEPT
            ![h] = Dropped(@, Cardinality(DeassignsOf(@, calls')))]
    /\ open_fds' = open_fds \ {handles[h].fd}
    /\ last' = Returned("drop", handles[h], Ok("unit"))
    /\ UNCHANGED <<coreVars, caps, hostVars>>

DropIoEventFd ==
    \E h \in 1..MaxHandles, kret \in CallRets : IoEventFd_drop(h, kret)

\* Machine::create_irqfd: as create_ioeventfd, keyed by the interrupt
\* line, behind the IrqFd capability
create_irqfd(gsi, flags, ret, made, kret) ==
    LET args == [gsi |-> gsi, flags |-> flags]
        q == KernelCall("kvm_check_extension", "IrqFd", ret)
        m == irqfd_mod(gsi, flags, NewFd, kret)
    IN
    /\ Len(handles) < MaxHandles
    /\ Fds \ open_fds # {}
    /\ IF assert_extension("IrqFd", ret).kind # "Ok"
       THEN /\ calls' = <<q>>
            /\ last' = Returned("create_irqfd", args,
                                assert_extension("IrqFd", ret))
            /\ UNCHANGED <<handles, open_fds>>
       ELSE IF ~made
       THEN /\ calls' = <<q>>
            /\ last' = Returned("create_irqfd", args, CreateIrqFdError)
            /\ UNCHANGED <<handles, open_fds>>
       ELSE /\ calls' = IF m.result.kind = "Ok" THEN <<q, m.issued>>
                        ELSE <<q, m.issued, CloseOf(NewFd)>>
            /\ IF m.result.kind = "Ok"
               THEN /\ handles' = Append(handles,
                            [kind |-> "IrqFd", gsi |-> gsi, flags |-> flags,
                             fd |-> NewFd, state |-> "live",
                             deassigns |-> 0])
                    /\ open_fds' = open_fds \cup {NewFd}
                    /\ last' = Returned("create_irqfd", args,
                                        Ok(Len(handles) + 1))
               ELSE /\ last' = Returned("create_irqfd", args, m.result)
                    /\ UNCHANGED <<handles, open_fds>>
    /\ UNCHANGED <<coreVars, caps, hostVars>>

CreateIrqFd ==
    \E gsi \in Lines, flags \in IrqFdFlagInputs, ret \in QueryRets("IrqFd"),
       made \in BOOLEAN, kret \in CallRets :
        create_irqfd(gsi, flags, ret, made, kret)

\* impl Drop for IrqFd, then the drop of its File
IrqFd_drop(h, kret) ==
    LET m == irqfd_mod(handles[h].gsi, handles[h].flags \cup {"DEASSIGN"},
                       handles[h].fd, kret)
    IN
    /\ h \in DOMAIN handles
    /\ handles[h].kind = "IrqFd"
    /\ handles[h].state = "live"
    /\ calls' = <<m.issued, CloseOf(handles[h].fd)>>
    /\ handles' = [handles EXCEPT
            ![h] = Dropped(@, Cardinality(DeassignsOf(@, calls')))]
    /\ open_fds' = open_fds \ {handles[h].fd}
    /\ last' = Returned("drop", handles[h], Ok("unit"))
    /\ UNCHANGED <<coreVars, caps, hostVars>>

DropIrqFd ==
    \E h \in 1..MaxHandles, kret \in CallRets : IrqFd_drop(h, kret)

InitChannel ==
    /\ caps \in {c \in [Capabilities -> {0, 1}] :
                    \A x \in Capabilities \ {"IoEventFd", "IrqFd"} : c[x] = 1}
    /\ calls = <<>>
    /\ last = Returned("new", "none", Ok("unit"))
    /\ handles = <<>>
    /\ open_fds = {}
    /\ InitCoreIdle
    /\ InitHostIdle

NextChannel == CreateIoEventFd \/ DropIoEventFd \/ CreateIrqFd \/ DropIrqFd

SpecChannel == InitChannel /\ [][NextChannel]_vars

----------------------------------------------------------------------------
(* Guest addresses of I/O (core/ioaddress.rs).                             *)

\* the builds of the library: with or without --cfg linux, with or
\* without overflow checks (the dev and the release profile)
Builds == [linux : BOOLEAN, overflow_checks : BOOLEAN]

\* a u64 is the tuple of its eight bytes, lowest first
RECURSIVE ToBytes(_, _)
ToBytes(n, k) ==
    IF k = 0 THEN <<>> ELSE <<n % 256>> \o ToBytes(n \div 256, k - 1)

\* a + b + c on the bytes from i on: the sum's bytes and the carry out
RECURSIVE AddFrom(_, _, _, _)
AddFrom(a, b, i, c) ==
    IF i > Len(a) THEN [bytes |-> <<>>, carry |-> c]
    ELSE LET t == a[i] + b[i] + c
             rest == AddFrom(a, b, i + 1, t \div 256)
         IN [bytes |-> <<t % 256>> \o rest.bytes, carry |-> rest.carry]

Complement(a) == [i \in 1..Len(a) |-> 255 - a[i]]

\* u64 +: the wrapped sum and whether it overflowed
u64_add(a, b) ==
    [value |-> AddFrom(a, b, 1, 0).bytes,
     overflow |-> AddFrom(a, b, 1, 0).carry = 1]

\* u64 -: the wrapped difference and whether it overflowed (a < b)
u64_sub(a, b) ==
    [value |-> AddFrom(a, Complement(b), 1, 1).bytes,
     overflow |-> AddFrom(a, Complement(b), 1, 1).carry = 0]

\* rhs as u64: zero extension of the unsigned types, sign extension of
\* the signed ones (a negative n becomes 2^64 + n)
as_u64(n) ==
    IF n >= 0 THEN ToBytes(n, 8)
    ELSE u64_sub(ToBytes(0, 8), ToBytes(0 - n, 8)).value

\* enum IoAddress
Memory(v) == [kind |-> "Memory", value |-> v]
Port(v) == [kind |-> "Port", value |-> v]

\* IoAddress::address
IoAddress_address(a) == a.value

\* IoAddress::flags
IoAddress_flags(a) == IF a.kind = "Port" THEN {"PIO"} ELSE {}

\* what an arithmetic operator of the build gives for a u64 result: the
\* panic of the overflow check, or the wrapped value
Checked(build, r) ==
    IF r.overflow /\ build.overflow_checks
    THEN [kind |-> "Panic", message |-> "arithmetic overflow"]
    ELSE Ok(r.value)

\* impl ops::Add<$v> for IoAddress
IoAddress_add(build, a, rhs) ==
    LET r == Checked(build, u64_add(a.value, as_u64(rhs)))
    IN IF r.kind # "Ok" THEN r
       ELSE IF a.kind = "Port" THEN Ok(Port(r.value))
            ELSE Ok(Memory(r.value))

\* impl ops::Sub<$v> for IoAddress
IoAddress_sub(build, a, rhs) ==
    LET r == Checked(build, u64_sub(a.value, as_u64(rhs)))
    IN IF r.kind # "Ok" THEN r
       ELSE IF a.kind = "Port" THEN Ok(Port(r.value))
            ELSE Ok(Memory(r.value))

\* the types addr_ops! is instantiated for, and the offsets of each
UnsignedTypes == {"u64", "u32", "u16", "u8"}
SignedTypes == {"i64", "i32", "i16", "i8"}
Offsets(type) ==
    IF type \in SignedTypes THEN (0 - MaxOffset)..MaxOffset ELSE 0..MaxOffset

\* the addresses the callers compute with: the lowest and the highest
AddressValues ==
    {ToBytes(n, 8) : n \in 0..MaxOffset}
        \cup {u64_sub(ToBytes(0, 8), ToBytes(n, 8)).value : n \in 1..MaxOffset}
IoAddresses64 ==
    {Memory(v) : v \in AddressValues} \cup {Port(v) : v \in AddressValues}

\* the result of a call that has not returned yet
Pending == [kind |-> "Pending"]

\* the calls of the value operations a caller may make
IoAddressCalls ==
    UNION {{Returned(op, [addr |-> a, type |-> type, rhs |-> rhs], Pending) :
                op \in {"add", "sub"}, a \in IoAddresses64,
                rhs \in Offsets(type)} :
            type \in UnsignedTypes \cup SignedTypes}
    \cup {Returned("flags", a, Pending) : a \in IoAddresses64}

\* the call made returns with res
Returns(op, res) ==
    /\ last.op = op
    /\ last.result = Pending
    /\ last' = [last EXCEPT !.result = res]

\* a caller adds an offset to an address, or subtracts one
IoAddressAdd ==
    /\ last.op = "add"
    /\ Returns("add", IoAddress_add(cfg, last.arg.addr, last.arg.rhs))
    /\ UNCHANGED <<coreVars, machineVars, hostVars>>

IoAddressSub ==
    /\ last.op = "sub"
    /\ Returns("sub", IoAddress_sub(cfg, last.arg.addr, last.arg.rhs))
    /\ UNCHANGED <<coreVars, machineVars, hostVars>>

\* a caller asks an address for its registration flags
IoAddressFlags ==
    /\ Returns("flags", Ok(IoAddress_flags(last.arg)))
    /\ UNCHANGED <<coreVars, machineVars, hostVars>>

----------------------------------------------------------------------------
(* The API version (system/mod.rs) and the lifecycle states of a core      *)
(* (core/mpstate.rs).                                                      *)

SystemApiError(req) == [kind |-> "SystemApiError", req |-> req]
InvalidVersionError(got, expected) ==
    [kind |-> "InvalidVersionError", got |-> got, expected |-> expected]

\* what the kernel may return to kvm_get_api_version: a version, or -1
VersionRets == (0 - 1)..MaxVersion

\* System::api_version
api_version(ret) ==
    IF IoctlFailed(ret)
    THEN SystemApiError("kvm_get_api_version")
    ELSE Ok(ret)

\* a check that takes every version from the expected one on
verify_api_version_AtLeast(ret) ==
    IF api_version(ret).kind # "Ok" THEN api_version(ret)
    ELSE IF api_version(ret).value < ExpectedApiVersion
         THEN InvalidVersionError(api_version(ret).value, ExpectedApiVersion)
         ELSE Ok("unit")

\* System::verify_api_version
verify_api_version(ret) ==
    IF api_version(ret).kind # "Ok" THEN api_version(ret)
    ELSE IF api_version(ret).value # ExpectedApiVersion
         THEN InvalidVersionError(api_version(ret).value, ExpectedApiVersion)
         ELSE Ok("unit")

\* a caller verifies the API version of the system
VerifyApiVersion ==
    \E ret \in VersionRets :
        /\ calls' = <<KernelCall("kvm_get_api_version", "none", ret)>>
        /\ Returns("verify_api_version", verify_api_version(ret))
        /\ UNCHANGED <<coreVars, caps, handles, open_fds, hostVars>>

\* enum MpState with the kernel constant of each state
\* (KVM_MP_STATE_RUNNABLE .. KVM_MP_STATE_LOAD)
MpStateCode ==
    [Runnable |-> 0, Uninitialized |-> 1, InitReceived |-> 2, Halted |-> 3,
     SipiReceived |-> 4, Stopped |-> 5, CheckStop |-> 6, Operating |-> 7,
     Load |-> 8]

MpStates == DOMAIN MpStateCode

\* the u32 values the kernel has for a lifecycle state: the nine, and the
\* ones later kernels add after them
MpStateValues == 0..(Cardinality(MpStates) - 1 + MaxFutureStates)

\* impl Into<u32> for MpState
MpState_into(state) == MpStateCode[state]

\* impl From<u32> for MpState; the last arm is unreachable!()
MpState_from(value) ==
    IF \E state \in MpStates : MpStateCode[state] = value
    THEN Ok(CHOOSE state \in MpStates : MpStateCode[state] = value)
    ELSE [kind |-> "Panic", message |-> "unreachable"]

\* a caller converts a lifecycle state to its number, or a number to its
\* lifecycle state
MpStateInto ==
    /\ Returns("MpState::into", Ok(MpState_into(last.arg)))
    /\ UNCHANGED <<coreVars, machineVars, hostVars>>

MpStateFrom ==
    /\ Returns("MpState::from", MpState_from(last.arg))
    /\ UNCHANGED <<coreVars, machineVars, hostVars>>

\* a caller converts the number it got from MpState::into back
MpStateBack ==
    /\ last.op = "MpState::into"
    /\ last.result.kind = "Ok"
    /\ last' = Returned("MpState::from(into)", last.arg,
                        MpState_from(last.result.value))
    /\ UNCHANGED <<coreVars, machineVars, hostVars>>

ValueCalls ==
    IoAddressCalls
        \cup {Returned("verify_api_version", "none", Pending)}
        \cup {Returned("MpState::into", state, Pending) : state \in MpStates}
        \cup {Returned("MpState::from", value, Pending) :
                value \in MpStateValues}

InitValues ==
    /\ cfg \in Builds
    /\ counter = 0
    /\ stream = [len |-> 0, buf |-> Fill(8, 0)]
    /\ slab = <<>>
    /\ mp_state = 0
    /\ last \in ValueCalls
    /\ InitMachineIdle
    /\ InitCoreIdle

NextValues ==
    \/ IoAddressAdd
    \/ IoAddressSub
    \/ IoAddressFlags
    \/ VerifyApiVersion
    \/ MpStateInto
    \/ MpStateFrom
    \/ MpStateBack

SpecValues == InitValues /\ [][NextValues]_vars

----------------------------------------------------------------------------
(* Notification channels of a core (core/mod.rs, core/ioeventfd.rs,        *)
(* eventfd/mod.rs, eventfd/basic.rs).                                      *)

KvmCoreOperationError(req) == [kind |-> "KvmCoreOperationError", req |-> req]
UnsupportedOsError == [kind |-> "UnsupportedOsError"]

\* the addresses and lengths the callers of a core register
CoreIoAddresses == {Memory(ToBytes(0, 8)), Port(ToBytes(1, 8))}

\* create_eventfd of the build.  made: eventfd(2) gave a descriptor.
create_eventfd(build, made) ==
    IF ~build.linux THEN UnsupportedOsError
    ELSE IF ~made THEN KvmCoreOperationError("eventfd")
    ELSE Ok(NewFd)

\* EventFd::new
EventFd_new(build, made) == create_eventfd(build, made)

\* core::IoEventFd::new
CoreIoEventFd_new(build, addr, len, made) ==
    LET ev == EventFd_new(build, made)
    IN IF ev.kind # "Ok" THEN ev
       ELSE Ok([kind |-> "CoreIoEventFd", addr |-> addr, len |-> len,
                fd |-> ev.value, state |-> "live", deassigns |-> 0])

\* the sys::IoEventFd a core hands to kvm_ioeventfd for addr, len and fd
CoreIoEventFdArg(addr, len, fd, flags) ==
    [datamatch |-> 0, addr |-> IoAddress_address(addr), len |-> len,
     fd |-> fd, flags |-> flags]

\* whether the call c deassigns the registration of the core's handle h
CoreDeassigns(h, c) ==
    /\ c.call = "kvm_ioeventfd"
    /\ "DEASSIGN" \in c.arg.flags
    /\ c.arg.fd = h.fd
    /\ c.arg.addr = IoAddress_address(h.addr)
    /\ c.arg.len = h.len
    /\ c.arg.datamatch = 0

\* Core::create_ioeventfd.  On a failure of the registration the closure
\* that holds the EventFd is dropped, which closes the descriptor.
Core_create_ioeventfd(addr, len, made, kret) ==
    LET args == [addr |-> addr, len |-> len]
        eventfd == CoreIoEventFd_new(cfg, addr, len, made)
        issued == KernelCall("kvm_ioeventfd",
                             CoreIoEventFdArg(addr, len, NewFd,
                                              IoAddress_flags(addr)), kret)
    IN
    /\ Len(handles) < MaxHandles
    /\ Fds \ open_fds # {}
    /\ IF eventfd.kind # "Ok"
       THEN /\ calls' = <<>>
            /\ last' = Returned("Core::create_ioeventfd", args, eventfd)
            /\ UNCHANGED <<handles, open_fds>>
       ELSE IF IoctlFailed(kret)
       THEN /\ calls' = <<issued, CloseOf(NewFd)>>
            /\ last' = Returned("Core::create_ioeventfd", args,
                                KvmCoreOperationError("kvm_ioeventfd"))
            /\ UNCHANGED <<handles, open_fds>>
       ELSE /\ calls' = <<issued>>
            /\ handles' = Append(handles, eventfd.value)
            /\ open_fds' = open_fds \cup {NewFd}
            /\ last' = Returned("Core::create_ioeventfd", args,
                                Ok(Len(handles) + 1))
    /\ UNCHANGED <<coreVars, caps, hostVars>>

CoreCreateIoEventFd ==
    \E addr \in CoreIoAddresses, len \in Lengths, made \in BOOLEAN,
       kret \in CallRets :
        Core_create_ioeventfd(addr, len, made, kret)

\* Core::remove_ioeventfd(&eventfd): the handle is borrowed and stays with
\* the caller
Core_remove_ioeventfd(h, kret) ==
    LET eventfd == handles[h]
        issued == KernelCall("kvm_ioeventfd",
                    CoreIoEventFdArg(eventfd.addr, eventfd.len, eventfd.fd,
                        IoAddress_flags(eventfd.addr) \cup {"DEASSIGN"}),
                    kret)
    IN
    /\ h \in DOMAIN handles
    /\ eventfd.kind = "CoreIoEventFd"
    /\ eventfd.state = "live"
    /\ eventfd.deassigns < MaxRemoves
    /\ calls' = <<issued>>
    /\ handles' = [handles EXCEPT
            ![h].deassigns = @ + (IF CoreDeassigns(eventfd, issued)
                                  THEN 1 ELSE 0)]
    /\ last' = Returned("Core::remove_ioeventfd", eventfd,
                        IF IoctlFailed(kret)
                        THEN KvmCoreOperationError("kvm_ioeventfd")
                        ELSE Ok("unit"))
    /\ UNCHANGED <<coreVars, caps, open_fds, hostVars>>

CoreRemoveIoEventFd ==
    \E h \in 1..MaxHandles, kret \in CallRets : Core_remove_ioeventfd(h, kret)

\* the drop of a core::IoEventFd: it has no Drop of its own, its EventFd
\* field is dropped, and with it the BasicEventFd, whose Drop is
\* close(fd).unwrap()
CoreIoEventFd_drop(h, cret) ==
    /\ h \in DOMAIN handles
    /\ handles[h].kind = "CoreIoEventFd"
    /\ handles[h].state = "live"
    /\ calls' = <<KernelCall("close", handles[h].fd, cret)>>
    /\ handles' = [handles EXCEPT ![h] = Dropped(@, 0)]
    /\ open_fds' = open_fds \ {handles[h].fd}
    /\ last' = Returned("drop", handles[h],
                        IF IoctlFailed(cret)
                        THEN [kind |-> "Panic", message |-> "unwrap"]
                        ELSE Ok("unit"))
    /\ UNCHANGED <<coreVars, caps, hostVars>>

CoreDropIoEventFd ==
    \E h \in 1..MaxHandles, cret \in CallRets : CoreIoEventFd_drop(h, cret)

InitCoreChannel ==
    /\ caps = [c \in Capabilities |-> 1]
    /\ calls = <<>>
    /\ last = Returned("new", "none", Ok("unit"))
    /\ handles = <<>>
    /\ open_fds = {}
    /\ InitCoreIdle
    /\ cfg \in Builds
    /\ counter = 0
    /\ stream = [len |-> 0, buf |-> Fill(8, 0)]
    /\ slab = <<>>
    /\ mp_state = 0

NextCoreChannel ==
    CoreCreateIoEventFd \/ CoreRemoveIoEventFd \/ CoreDropIoEventFd

SpecCoreChannel == InitCoreChannel /\ [][NextCoreChannel]_vars

\* a machine and a core of it, both with their notification channels
InitChannels ==
    /\ caps = [c \in Capabilities |-> 1]
    /\ calls = <<>>
    /\ last = Returned("new", "none", Ok("unit"))
    /\ handles = <<>>
    /\ open_fds = {}
    /\ InitCoreIdle
    /\ cfg = [linux |-> TRUE, overflow_checks |-> TRUE]
    /\ counter = 0
    /\ stream = [len |-> 0, buf |-> Fill(8, 0)]
    /\ slab = <<>>
    /\ mp_state = 0

NextChannels ==
    \/ CreateIoEventFd \/ DropIoEventFd
    \/ CoreCreateIoEventFd \/ CoreRemoveIoEventFd \/ CoreDropIoEventFd

SpecChannels == InitChannels /\ [][NextChannels]_vars

----------------------------------------------------------------------------
(* Notifications: the counter of an eventfd and its readers                *)
(* (machine/ioeventfd.rs, eventfd/mod.rs).                                 *)

ReadIoEventFdError == [kind |-> "ReadIoEventFdError"]
IoError(errno) == [kind |-> "IoError", errno |-> errno]

\* the flags IoEventFd::build creates the eventfd with
IoEventFd_build_flags == {"EFD_NONBLOCK"}

\* the guest writes to the registered address: the kernel adds one to the
\* counter of the eventfd
Notify ==
    /\ counter < MaxCounter
    /\ counter' = counter + 1
    /\ last' = Returned("notify", counter, Ok("unit"))
    /\ UNCHANGED <<coreVars, machineVars, cfg, stream, slab, mp_state>>

\* read(2) of eight bytes from an eventfd made with flags whose counter is
\* n.  failed: the descriptor fails (EBADF, EIO).  On an empty counter the
\* call fails with EAGAIN on a nonblocking descriptor and blocks otherwise.
eventfd_read(flags, n, failed) ==
    IF failed THEN IoError("EIO")
    ELSE IF n > 0 THEN Ok(ToBytes(n, 8))
    ELSE IF "EFD_NONBLOCK" \in flags THEN IoError("EAGAIN")
    ELSE [kind |-> "Blocked"]

\* NativeEndian::read_u64: the u64 whose bytes, lowest first, are buf's
NativeEndian_read_u64(buf) == SubSeq(buf, 1, 8)

\* IoEventFd::read_value; read_exact gives up on every error but EINTR
IoEventFd_read_value(n, failed) ==
    LET r == eventfd_read(IoEventFd_build_flags, n, failed)
    IN IF r.kind = "IoError" THEN ReadIoEventFdError
       ELSE IF r.kind = "Blocked" THEN r
       ELSE Ok(NativeEndian_read_u64(r.value))

\* a caller reads the value of a machine's IoEventFd; a call that blocks
\* has not returned
ReadValue ==
    \E failed \in BOOLEAN :
        LET r == IoEventFd_read_value(counter, failed)
        IN /\ last' = Returned("read_value",
                               [counter |-> counter, failed |-> failed], r)
           /\ counter' = IF r.kind = "Ok" THEN 0 ELSE counter
           /\ UNCHANGED <<coreVars, machineVars, cfg, stream, slab, mp_state>>

\* Async<Option<u64>>
Ready(item) == [async |-> "Ready", item |-> item]
NotReady == [async |-> "NotReady"]
Some(v) == [some |-> TRUE, value |-> v]
None == [some |-> FALSE]

\* what poll_read may give for the bytes of a buffer from off on, on an
\* eventfd whose counter is c: the next v bytes of the counter read (all
\* that are left, some or none), not ready, or an error of the transport
PollReads(off, c) ==
    {[kind |-> "Ready", bytes |-> Slice(ToBytes(c, 8), off, v)] :
        v \in 0..(8 - off)}
        \cup {[kind |-> "NotReady"], [kind |-> "Err"]}

\* a poll that takes a read of no bytes for the end of the stream
IoEventStream_poll_EndOnEmpty(s, read) ==
    IF read.kind = "Err"
    THEN [state |-> s, result |-> ReadIoEventFdError]
    ELSE IF read.kind = "Ready" /\ Len(read.bytes) = 0
    THEN [state |-> s, result |-> Ok(Ready(None))]
    ELSE [state |-> s, result |-> Ok(NotReady)]

\* a poll that hands the whole buffer to every read
IoEventStream_poll_FromStart(s, read) ==
    IF read.kind = "Err"
    THEN [state |-> s, result |-> ReadIoEventFdError]
    ELSE IF read.kind = "Ready"
    THEN LET buf == Overlay(s.buf, 0, read.bytes)
             len == s.len + Len(read.bytes)
         IN IF len = 8
            THEN [state |-> [len |-> 0, buf |-> buf],
                  result |-> Ok(Ready(Some(NativeEndian_read_u64(buf))))]
            ELSE [state |-> [len |-> len, buf |-> buf],
                  result |-> Ok(NotReady)]
    ELSE [state |-> s, result |-> Ok(NotReady)]

\* impl Stream for IoEventStream: poll, for the outcome read of
\* poll_read(&mut self.buf[self.len..]); gives the stream afterwards and
\* the value returned
IoEventStream_poll(s, read) ==
    IF read.kind = "Err"
    THEN [state |-> s, result |-> ReadIoEventFdError]
    ELSE IF read.kind = "Ready"
    THEN LET buf == Overlay(s.buf, s.len, read.bytes)
             len == s.len + Len(read.bytes)
         IN IF len = 8
            THEN [state |-> [len |-> 0, buf |-> buf],
                  result |-> Ok(Ready(Some(NativeEndian_read_u64(buf))))]
            ELSE [state |-> [len |-> len, buf |-> buf],
                  result |-> Ok(NotReady)]
    ELSE [state |-> s, result |-> Ok(NotReady)]

\* a task polls the stream of a machine's IoEventFd
IoEventStreamPoll ==
    \E read \in PollReads(stream.len, counter) :
        LET p == IoEventStream_poll(stream, read)
        IN /\ stream' = p.state
           /\ last' = Returned("IoEventStream::poll",
                               [len |-> stream.len, read |-> read,
                                held |-> SubSeq(stream.buf, 1, stream.len)],
                               p.result)
           /\ counter' = IF read.kind = "Ready" /\ Len(read.bytes) > 0
                         THEN 0 ELSE counter
           /\ UNCHANGED <<coreVars, machineVars, cfg, slab, mp_state>>

\* impl Stream for EventFd: poll, for the outcome read of
\* poll_read(&mut buf) on a fresh buf of eight zero bytes
EventFd_poll(read) ==
    IF read.kind = "Ready"
    THEN Ok(Ready(Some(NativeEndian_read_u64(
                Overlay(Fill(8, 0), 0, read.bytes)))))
    ELSE IF read.kind = "NotReady" THEN Ok(NotReady)
    ELSE IoError("EIO")

\* a task polls the EventFd of a core
EventFdPoll ==
    \E read \in PollReads(0, counter) :
        /\ last' = Returned("EventFd::poll", [len |-> 0, read |-> read],
                            EventFd_poll(read))
        /\ counter' = IF read.kind = "Ready" /\ Len(read.bytes) > 0
                      THEN 0 ELSE counter
        /\ UNCHANGED <<coreVars, machineVars, cfg, stream, slab, mp_state>>

InitEvents ==
    /\ InitCoreIdle
    /\ InitMachineIdle
    /\ InitHostIdle
    /\ last = Returned("new", "none", Ok("unit"))

NextEvents == Notify \/ ReadValue \/ IoEventStreamPoll \/ EventFdPoll

SpecEvents == InitEvents /\ [][NextEvents]_vars

----------------------------------------------------------------------------
(* Memory slabs (memory.rs).                                               *)

\* the bytes the callers write
SlabBytes == {0, 1}

\* the byte strings of at most n bytes
BytePatterns(n) == UNION {[1..k -> SlabBytes] : k \in 0..n}

Fault == [kind |-> "Fault"]

\* Slab::from_anon(size): an anonymous mapping starts as zero bytes
Slab_from_anon(size) == Fill(size, 0)

\* Slab::len
Slab_len(s) == Len(s)

\* the part of a copy of n bytes at offset at that falls inside the slab
Inside(s, at, n) ==
    IF at + n <= Slab_len(s) THEN n
    ELSE IF at >= Slab_len(s) THEN 0 ELSE Slab_len(s) - at

\* whether a copy of n bytes at offset at may fault, and what it may find
\* behind the mapping: only a copy that leaves the slab does either
Faults(s, at, n) == IF at + n > Slab_len(s) THEN BOOLEAN ELSE {FALSE}
Junk(s, at, n) == IF at + n > Slab_len(s) THEN JunkVals ELSE {0}

\* a read that always starts at the first byte of the slab
Slab_read_bytes_FromStart(s, at, n, faults, junk) ==
    IF at + n > Slab_len(s) /\ faults THEN Fault
    ELSE Ok(Slice(s, 0, Inside(s, 0, n))
                \o Fill(n - Inside(s, 0, n), junk))

\* Slab::read_bytes: copy_nonoverlapping of dest.len() = n bytes from
\* address + at.  There is no bounds check: a copy that leaves the mapping
\* faults, or reads what lies behind it (junk).
Slab_read_bytes(s, at, n, faults, junk) ==
    IF at + n > Slab_len(s) /\ faults THEN Fault
    ELSE Ok(Slice(s, at, Inside(s, at, n))
                \o Fill(n - Inside(s, at, n), junk))

\* Slab::write_bytes: copy_nonoverlapping of value to address + at; gives
\* the slab afterwards.  A copy that leaves the mapping faults, or writes
\* its tail behind the mapping.
Slab_write_bytes(s, at, value, faults) ==
    IF at + Len(value) > Slab_len(s) /\ faults THEN Fault
    ELSE Ok(Overlay(s, IF at > Slab_len(s) THEN Slab_len(s) ELSE at,
                    SubSeq(value, 1, Inside(s, at, Len(value)))))

\* a caller writes a byte pattern to the slab
WriteBytes ==
    \E at \in 0..Slab_len(slab), value \in BytePatterns(Slab_len(slab)) :
      \E faults \in Faults(slab, at, Len(value)) :
        LET w == Slab_write_bytes(slab, at, value, faults)
        IN /\ last.result # Fault
           /\ slab' = IF w = Fault THEN slab ELSE w.value
           /\ last' = Returned("write_bytes", [at |-> at, value |-> value],
                               IF w = Fault THEN Fault ELSE Ok("unit"))
           /\ UNCHANGED <<coreVars, machineVars, cfg, counter, stream,
                          mp_state>>

\* a caller reads n bytes of the slab into dest; after: the bytes that
\* the call just before this read wrote to the same range, if it was such
\* a write
ReadBytes ==
    \E at \in 0..Slab_len(slab), n \in 0..Slab_len(slab) :
      \E faults \in Faults(slab, at, n), junk \in Junk(slab, at, n) :
        /\ last.result # Fault
        /\ last' = Returned("read_bytes",
                [at |-> at, len |-> n,
                 after |-> IF /\ last.op = "write_bytes"
                              /\ last.arg.at = at
                              /\ Len(last.arg.value) = n
                           THEN <<last.arg.value>> ELSE <<>>],
                Slab_read_bytes(slab, at, n, faults, junk))
        /\ UNCHANGED <<coreVars, machineVars, hostVars>>

InitSlab ==
    /\ InitCoreIdle
    /\ InitMachineIdle
    /\ cfg = [linux |-> FALSE, overflow_checks |-> TRUE]
    /\ counter = 0
    /\ stream = [len |-> 0, buf |-> Fill(8, 0)]
    /\ mp_state = 0
    /\ \E size \in 1..MaxSlabLen : slab = Slab_from_anon(size)
    /\ last = Returned("from_anon", Slab_len(slab), Ok("unit"))

NextSlab == WriteBytes \/ ReadBytes

SpecSlab == InitSlab /\ [][NextSlab]_vars

----------------------------------------------------------------------------
(* The lifecycle state of a core (core/mod.rs).                            *)

\* the kernel moves the core to another lifecycle state (the core halts,
\* is reset, is started by another core)
KernelSetsMpState ==
    \E value \in MpStateValues :
        /\ value # mp_state
        /\ mp_state' = value
        /\ calls' = <<>>
        /\ last' = Returned("kernel", value, Ok("unit"))
        /\ UNCHANGED <<coreVars, caps, handles, open_fds, cfg, counter,
                       stream, slab>>

\* Core::mp_state.  kernel: the state the kernel holds for the core, which
\* the call writes into state.mp_state; kret: what the ioctl returns.  The
\* closure of map converts v, the return of the ioctl.
Core_mp_state(kernel, kret) ==
    LET state == [mp_state |-> kernel]
        v == kret
    IN IF IoctlFailed(kret) THEN KvmCoreOperationError("kvm_get_mp_state")
       ELSE MpState_from(v)

CoreMpState ==
    \E kret \in CallRets :
        /\ calls' = <<KernelCall("kvm_get_mp_state", "none", kret)>>
        /\ last' = Returned("mp_state", [reported |-> mp_state],
                            Core_mp_state(mp_state, kret))
        /\ UNCHANGED <<coreVars, caps, handles, open_fds, hostVars>>

\* Core::set_mp_state: what the kernel is handed and what is returned
Core_set_mp_state(state, kret) ==
    [issued |-> KernelCall("kvm_set_mp_state",
                           [mp_state |-> MpState_into(state)], kret),
     result |-> IF IoctlFailed(kret)
                THEN KvmCoreOperationError("kvm_set_mp_state")
                ELSE Ok("unit")]

\* a caller sets the lifecycle state; a kernel that accepts the call stores
\* the value
CoreSetMpState ==
    \E state \in MpStates, kret \in CallRets :
        LET m == Core_set_mp_state(state, kret)
        IN /\ calls' = <<m.issued>>
           /\ mp_state' = IF IoctlFailed(kret) THEN mp_state
                          ELSE m.issued.arg.mp_state
           /\ last' = Returned("set_mp_state", state, m.result)
           /\ UNCHANGED <<coreVars, caps, handles, open_fds, cfg, counter,
                          stream, slab>>

InitLifecycle ==
    /\ InitCoreIdle
    /\ InitMachineIdle
    /\ InitHostIdle
    /\ last = Returned("new", "none", Ok("unit"))

NextLifecycle == KernelSetsMpState \/ CoreMpState \/ CoreSetMpState

SpecLifecycle == InitLifecycle /\ [][NextLifecycle]_vars

----------------------------------------------------------------------------
(* The run loop and the release of a core (core/mod.rs, memory.rs).        *)

\* the descriptor of the core: the lowest one
CoreFd == CHOOSE fd \in Fds : \A o \in Fds : fd <= o

\* the unions the kernel leaves behind an exit: the direction byte of an Io
\* exit is KVM_EXIT_IO_IN or KVM_EXIT_IO_OUT
KernelPayloads ==
    {Overlay(UnionFill[f], 0, <<d>>) :
        f \in JunkVals, d \in {KVM_EXIT_IO_IN, KVM_EXIT_IO_OUT}}

\* what kvm_run may return: success, or -1 with an errno
RunRets ==
    {[ret |-> 0, errno |-> "none"],
     [ret |-> -1, errno |-> "EINTR"],
     [ret |-> -1, errno |-> "EFAULT"]}

\* the record of a call on the core that returns a value
CalledReturning(op, arg, result) ==
    [op |-> op, arg |-> arg, prev_op |-> last.op, prev_arg |-> last.arg,
     result |-> result]

\* a Core::run that enters the guest again when kvm_run was interrupted
Core_run_RetryInterrupted(kret) ==
    [issued |-> IF kret.errno = "EINTR"
                THEN <<KernelCall("kvm_run", CoreFd, kret.ret),
                       KernelCall("kvm_run", CoreFd, kret.ret)>>
                ELSE <<KernelCall("kvm_run", CoreFd, kret.ret)>>,
     result |-> IF IoctlFailed(kret.ret)
                THEN KvmCoreOperationError("kvm_run")
                ELSE Ok("unit")]

\* Core::run: the kernel calls it issues and what it returns
Core_run(kret) ==
    [issued |-> <<KernelCall("kvm_run", CoreFd, kret.ret)>>,
     result |-> IF IoctlFailed(kret.ret)
                THEN KvmCoreOperationError("kvm_run")
                ELSE Ok("unit")]

\* a caller runs the core; the kernel leaves the tag and the union of the
\* exit in the control page, and nothing when it fails before entering
CoreRun ==
    /\ core_status = "live"
    /\ \E kret \in RunRets :
         LET r == Core_run(kret) IN
           /\ calls' = r.issued
           /\ last' = CalledReturning("run", kret, r.result)
           /\ IF kret.errno = "EFAULT"
              THEN run' = run
              ELSE \E tag \in Tags, payload \in KernelPayloads :
                     run' = [run EXCEPT !.exit_reason = tag,
                                        !.exit = payload]
    /\ decoded' = NoPause
    /\ UNCHANGED <<core_status, caps, handles, open_fds, hostVars>>

\* Core::get_run: a copy of the control page
Core_get_run == run

CoreGetRun ==
    /\ core_status = "live"
    /\ last' = CalledReturning("get_run", NoPause, Core_get_run)
    /\ calls' = <<>>
    /\ UNCHANGED <<coreVars, caps, handles, open_fds, hostVars>>

\* a release of the core that leaves the control page mapped
Core_drop_NoUnmap(cret, mret) ==
    [issued |-> <<KernelCall("close", CoreFd, cret)>>,
     closed |-> cret = 0,
     status |-> IF cret = -1 THEN "panicked" ELSE "released"]

\* The drop glue of Core: Drop::drop closes the descriptor and unwraps the
\* result, then the field value: Slab is dropped, which unmaps the page and
\* unwraps the result.  A panic of Drop::drop unwinds through the drop of
\* the fields; a second panic while unwinding aborts.
Core_drop(cret, mret) ==
    [issued |-> <<KernelCall("close", CoreFd, cret),
                  KernelCall("munmap", "run", mret)>>,
     closed |-> cret = 0,
     status |-> IF cret = -1 /\ mret = -1 THEN "aborted"
                ELSE IF cret = -1 \/ mret = -1 THEN "panicked"
                ELSE "released"]

\* the owner of the core lets go of it
CoreDrop ==
    /\ core_status = "live"
    /\ \E cret \in CallRets, mret \in CallRets :
         LET d == Core_drop(cret, mret) IN
           /\ calls' = d.issued
           /\ core_status' = d.status
           /\ open_fds' = IF d.closed THEN open_fds \ {CoreFd} ELSE open_fds
           /\ last' = CalledReturning("drop", [close |-> cret, munmap |-> mret],
                                      d.status)
    /\ UNCHANGED <<run, decoded, caps, handles, hostVars>>

\* a core as Machine::create_core returns it: the page as the kernel set
\* it up, the descriptor open
InitRun ==
    /\ \E tag \in Tags, payload \in KernelPayloads :
            run = Page(0, tag, payload)
    /\ decoded = NoPause
    /\ core_status = "live"
    /\ last = [op |-> "new", arg |-> NoPause,
               prev_op |-> "none", prev_arg |-> NoPause]
    /\ caps = <<>>
    /\ calls = <<>>
    /\ handles = <<>>
    /\ open_fds = {CoreFd}
    /\ InitHostIdle

NextRun == CoreRun \/ CoreGetRun \/ pause \/ SetPauseDecoded \/ CoreDrop

SpecRun == InitRun /\ [][NextRun]_vars

----------------------------------------------------------------------------
(* Exit: the borrowed view of the exit union (core/exit.rs, core/data.rs). *)

\* The variants of Exit: the tag of each, and the size in bytes of the
\* member of the union it borrows with the offsets of the padding inside
\* that member (the layout of struct kvm_run in the kernel ABI).
ExitMembers ==
    [Hw |-> [tag |-> KVM_EXIT_UNKNOWN, size |-> 8, pads |-> {}],
     FailEntry |-> [tag |-> KVM_EXIT_FAIL_ENTRY, size |-> 8, pads |-> {}],
     Ex |-> [tag |-> KVM_EXIT_EXCEPTION, size |-> 8, pads |-> {}],
     Io |-> [tag |-> KVM_EXIT_IO, size |-> 16, pads |-> {}],
     Mmio |-> [tag |-> KVM_EXIT_MMIO, size |-> 24, pads |-> {21, 22, 23}],
     Hypercall |-> [tag |-> KVM_EXIT_HYPERCALL, size |-> 72, pads |-> {}],
     TprAccess |-> [tag |-> KVM_EXIT_TPR_ACCESS, size |-> 16, pads |-> {}],
     S390Sieic |-> [tag |-> KVM_EXIT_S390_SIEIC, size |-> 8, pads |-> {1}],
     S390ResetFlags |-> [tag |-> KVM_EXIT_S390_RESET, size |-> 8, pads |-> {}],
     S390Ucontrol |-> [tag |-> KVM_EXIT_S390_UCONTROL, size |-> 16,
                       pads |-> {12, 13, 14, 15}],
     Dcr |-> [tag |-> KVM_EXIT_DCR, size |-> 12, pads |-> {9, 10, 11}],
     Internal |-> [tag |-> KVM_EXIT_INTERNAL_ERROR, size |-> 136, pads |-> {}],
     Osi |-> [tag |-> KVM_EXIT_OSI, size |-> 256, pads |-> {}],
     PaprHcall |-> [tag |-> KVM_EXIT_PAPR_HCALL, size |-> 88, pads |-> {}],
     S390Tsch |-> [tag |-> KVM_EXIT_S390_TSCH, size |-> 20,
                   pads |-> {17, 18, 19}],
     Epr |-> [tag |-> KVM_EXIT_EPR, size |-> 4, pads |-> {}],
     SystemEvent |-> [tag |-> KVM_EXIT_SYSTEM_EVENT, size |-> 16,
                      pads |-> {4, 5, 6, 7}],
     S390Stsi |-> [tag |-> KVM_EXIT_S390_STSI, size |-> 16, pads |-> {14, 15}],
     Eoi |-> [tag |-> KVM_EXIT_IOAPIC_EOI, size |-> 1, pads |-> {}]]

ExitVariants == DOMAIN ExitMembers

\* an Exit: its variant and the bytes of the member it borrows (for
\* S390ResetFlags, the bytes of the u64 it holds)
Exit(kind, content) == [kind |-> kind, content |-> content]

\* the fields of a member: its bytes but for the padding
ExitFields(e) ==
    [i \in 1..Len(e.content) |->
        IF (i - 1) \in ExitMembers[e.kind].pads THEN 0 ELSE e.content[i]]

\* a copy of a member (**v): the fields are copied, the padding holds
\* whatever the copy leaves there
ExitCopy(e, junk) ==
    [i \in 1..Len(e.content) |->
        IF (i - 1) \in ExitMembers[e.kind].pads THEN junk ELSE e.content[i]]

\* Exit::from, and ExitMut::from, which matches the same tags
Exit_from(reason, raw) ==
    IF \E v \in ExitVariants : ExitMembers[v].tag = reason
    THEN LET v == CHOOSE k \in ExitVariants : ExitMembers[k].tag = reason
         IN Some(Exit(v, Slice(raw, 0, ExitMembers[v].size)))
    ELSE None

\* an Exit::split that gives the S390Ucontrol variant the tag of the reset
Exit_split_UcontrolAsReset(e, junk) ==
    [code |-> IF e.kind = "S390Ucontrol"
              THEN KVM_EXIT_S390_RESET
              ELSE ExitMembers[e.kind].tag,
     exit |-> UnionOf(ExitCopy(e, junk), junk)]

\* Exit::split: the tag of the variant and a union literal that names the
\* variant's member
Exit_split(e, junk) ==
    [code |-> ExitMembers[e.kind].tag,
     exit |-> UnionOf(ExitCopy(e, junk), junk)]

\* Data::exit
Data_exit(r) == Exit_from(r.exit_reason, r.exit)

\* DataMut::exit
DataMut_exit(r) == Exit_from(r.exit_reason, r.exit)

\* DataMut::set_exit
DataMut_set_exit(r, e, junk) ==
    LET s == Exit_split(e, junk) IN
    [r EXCEPT !.exit_reason = s.code, !.exit = s.exit]

\* the tags a page may carry: those of the kernel ABI up to the last one
\* the library names, and some the kernel may add
ExitTags == 0..(KVM_EXIT_IOAPIC_EOI + MaxFutureTags)

\* the Exit values a caller passes to set_exit
ExitInputs ==
    {Exit(v, Word(ExitMembers[v].size, s)) : v \in ExitVariants, s \in Seeds}

\* a caller decodes the page through Data
DataExit ==
    /\ last' = CalledReturning("Data::exit", NoPause, Data_exit(run))
    /\ UNCHANGED <<coreVars, machineVars, hostVars>>

\* a caller decodes the page through DataMut
DataMutExit ==
    /\ last' = CalledReturning("DataMut::exit", NoPause, DataMut_exit(run))
    /\ UNCHANGED <<coreVars, machineVars, hostVars>>

\* a caller encodes an Exit into the page
DataMutSetExit ==
    /\ \E e \in ExitInputs, junk \in JunkVals :
         /\ run' = DataMut_set_exit(run, e, junk)
         /\ last' = Called("DataMut::set_exit",
                           [exit |-> e, cr8 |-> run.cr8])
    /\ UNCHANGED <<decoded, core_status, machineVars, hostVars>>

InitExit ==
    /\ \E seed \in Seeds, tag \in ExitTags, fill \in JunkVals :
            run = Page(seed, tag, UnionFill[fill])
    /\ decoded = NoPause
    /\ core_status = "live"
    /\ last = [op |-> "new", arg |-> NoPause,
               prev_op |-> "none", prev_arg |-> NoPause]
    /\ InitMachineIdle
    /\ InitHostIdle

NextExit == DataExit \/ DataMutExit \/ DataMutSetExit

SpecExit == InitExit /\ [][NextExit]_vars

----------------------------------------------------------------------------
(* The dirty log of a memory slot (machine/mod.rs).                        *)

\* x & !64: x with the bit of weight 64 cleared
ClearBit64(x) == IF (x \div 64) % 2 = 1 THEN x - 64 ELSE x

\* the first shadowed binding of pages: (size + (4096 - 1)) >> 12
dirty_log_pages(size) == (size + (4096 - 1)) \div 4096

\* the second binding of pages, the length of the vector of u64:
\* ((pages + (64 - 1)) & !64) / 8
dirty_log_words(size) == ClearBit64(dirty_log_pages(size) + (64 - 1)) \div 8

\* Machine::dirty_log: the kernel call it issues with the buffer it
\* allocated, and what it returns
dirty_log(slot, size, kret) ==
    [issued |-> KernelCall("kvm_get_dirty_log",
                           [slot |-> slot, words |-> dirty_log_words(size)],
                           kret),
     result |-> IF IoctlFailed(kret)
                THEN MachineApiError("kvm_get_dirty_log")
                ELSE Ok(Repeat(0, dirty_log_words(size)))]

\* the sizes callers ask the log of: those of the comment in the code, and
\* the sizes around each page boundary up to MaxDirtyPages pages
DirtySizes ==
    {10, 4100} \cup
    {s \in {4096 * k + d : k \in 0..MaxDirtyPages, d \in {-1, 0, 1}} : s >= 0}

DirtyLog ==
    /\ \E slot \in 0..1, size \in DirtySizes, kret \in CallRets :
         LET d == dirty_log(slot, size, kret) IN
           /\ calls' = <<d.issued>>
           /\ last' = Returned("dirty_log", [slot |-> slot, size |-> size],
                               d.result)
    /\ UNCHANGED <<coreVars, caps, handles, open_fds, hostVars>>

InitDirtyLog ==
    /\ InitCoreIdle
    /\ InitMachineIdle
    /\ InitHostIdle
    /\ last = Returned("new", "none", Ok("unit"))

NextDirtyLog == DirtyLog

SpecDirtyLog == InitDirtyLog /\ [][NextDirtyLog]_vars

----------------------------------------------------------------------------
(* Memory regions (machine/region.rs).                                     *)

\* a RegionFlags value is its bits; has, insert (|=) and remove (&= !)
HasFlag(flags, bit) == (flags \div bit) % 2 = 1
InsertFlag(flags, bit) == IF HasFlag(flags, bit) THEN flags ELSE flags + bit
RemoveFlag(flags, bit) == IF HasFlag(flags, bit) THEN flags - bit ELSE flags

\* RegionFlags::empty()
RegionFlags_empty == 0

\* a slice of host memory: its base address and its length
HostSlice(base, len) == [base |-> base, len |-> len]

\* RegionOptions::new
RegionOptions_new(slot) ==
    [slot |-> slot, flags |-> RegionFlags_empty, source |-> None,
     addr |-> ToBytes(0, 8)]

\* RegionOptions::log_dirty_pages
log_dirty_pages(o) ==
    [o EXCEPT !.flags = InsertFlag(@, KVM_MEM_LOG_DIRTY_PAGES)]

\* RegionOptions::disable_log_dirty_pages
disable_log_dirty_pages(o) ==
    [o EXCEPT !.flags = RemoveFlag(@, KVM_MEM_LOG_DIRTY_PAGES)]

\* RegionOptions::read_only
read_only(o) == [o EXCEPT !.flags = InsertFlag(@, KVM_MEM_READONLY)]

\* a disable_read_only that empties the flags
disable_read_only_EmptiesFlags(o) == [o EXCEPT !.flags = RegionFlags_empty]

\* RegionOptions::disable_read_only
disable_read_only(o) == [o EXCEPT !.flags = RemoveFlag(@, KVM_MEM_READONLY)]

\* RegionOptions::source
source(o, slice) == [o EXCEPT !.source = Some(slice)]

\* RegionOptions::addr
addr(o, a) == [o EXCEPT !.addr = a]

\* RegionOptions::take: the options without their source, and the source
take(o) == <<[o EXCEPT !.source = None], o.source>>

\* impl Into<Region> for RegionOptions: Region is a tuple struct
RegionOptions_into_Region(o) == <<o.slot, o.flags, o.source, o.addr>>

\* impl Into<RegionOptions> for Region
Region_into_RegionOptions(r) ==
    [slot |-> r[1], flags |-> r[2], source |-> r[3], addr |-> r[4]]

\* impl Into<kvm::UserspaceMemoryRegion> for Region
Region_into_UserspaceMemoryRegion(r) ==
    [slot |-> r[1],
     flags |-> r[2],
     guest_phys_addr |-> r[4],
     memory_size |-> IF r[3].some THEN r[3].value.len ELSE 0,
     userspace_addr |-> IF r[3].some THEN r[3].value.base ELSE 0]

\* the slices callers back a region with: one or MaxRegionPages pages at
\* two places of the host, and an empty slice
HostSlices ==
    {HostSlice(4096 * b, len) :
        b \in 1..2, len \in {0} \cup {4096 * n : n \in 1..MaxRegionPages}}

\* the options a caller holds: those the last call returned
Options == last.result.options

RegionReturned(op, options, out) ==
    Returned(op, Options, [options |-> options, out |-> out])

RegionNew ==
    /\ \E slot \in 0..1 :
         last' = RegionReturned("new", RegionOptions_new(slot), None)
    /\ UNCHANGED <<coreVars, machineVars, hostVars>>

RegionLogDirtyPages ==
    /\ last' = RegionReturned("log_dirty_pages", log_dirty_pages(Options),
                              None)
    /\ UNCHANGED <<coreVars, machineVars, hostVars>>

RegionDisableLogDirtyPages ==
    /\ last' = RegionReturned("disable_log_dirty_pages",
                              disable_log_dirty_pages(Options), None)
    /\ UNCHANGED <<coreVars, machineVars, hostVars>>

RegionReadOnly ==
    /\ last' = RegionReturned("read_only", read_only(Options), None)
    /\ UNCHANGED <<coreVars, machineVars, hostVars>>

RegionDisableReadOnly ==
    /\ last' = RegionReturned("disable_read_only",
                              disable_read_only(Options), None)
    /\ UNCHANGED <<coreVars, machineVars, hostVars>>

RegionSource ==
    /\ \E slice \in HostSlices :
         last' = RegionReturned("source", source(Options, slice), None)
    /\ UNCHANGED <<coreVars, machineVars, hostVars>>

RegionAddr ==
    /\ \E a \in 0..MaxAddress :
         last' = RegionReturned("addr",
                                addr(Options, ToBytes(4096 * a, 8)), None)
    /\ UNCHANGED <<coreVars, machineVars, hostVars>>

RegionTake ==
    /\ last' = RegionReturned("take", take(Options)[1], take(Options)[2])
    /\ UNCHANGED <<coreVars, machineVars, hostVars>>

\* the options are turned into a Region and back
RegionRoundTrip ==
    /\ last' = RegionReturned(
                  "into",
                  Region_into_RegionOptions(RegionOptions_into_Region(Options)),
                  Some(RegionOptions_into_Region(Options)))
    /\ UNCHANGED <<coreVars, machineVars, hostVars>>

\* Machine::set_region up to its kernel call: the options become a Region
\* and the Region the structure handed to the kernel
RegionDescriptor ==
    /\ last' = RegionReturned(
                  "set_region", Options,
                  Some(Region_into_UserspaceMemoryRegion(
                           RegionOptions_into_Region(Options))))
    /\ UNCHANGED <<coreVars, machineVars, hostVars>>

InitRegion ==
    /\ InitCoreIdle
    /\ InitMachineIdle
    /\ InitHostIdle
    /\ \E slot \in 0..1 :
         last = Returned("new", RegionOptions_new(slot),
                         [options |-> RegionOptions_new(slot), out |-> None])

NextRegion ==
    \/ RegionNew \/ RegionLogDirtyPages \/ RegionDisableLogDirtyPages
    \/ RegionReadOnly \/ RegionDisableReadOnly \/ RegionSource \/ RegionAddr
    \/ RegionTake \/ RegionRoundTrip \/ RegionDescriptor

SpecRegion == InitRegion /\ [][NextRegion]_vars

----------------------------------------------------------------------------
(* Properties of the control page's decoding and encoding. *)

\* the caller passes back to set_pause, unchanged, the Pause that the
\* page it is written to decodes to
ReencodeStep ==
    /\ last'.op = "set_pause"
    /\ decoded.kind \notin {"None", "Panic"}
    /\ last'.arg = decoded
    /\ decoded = Pause_from(run)

\* the bytes of the union that the variant of a recognized tag exposes
ExposedBytes(tag, e) ==
    CASE tag = KVM_EXIT_UNKNOWN -> Slice(e, 0, 8)
      [] tag = KVM_EXIT_FAIL_ENTRY -> Slice(e, 0, 8)
      [] tag = KVM_EXIT_EXCEPTION -> Slice(e, 0, 8)
      [] tag = KVM_EXIT_IO -> Slice(e, 0, 16)
      [] tag = KVM_EXIT_MMIO -> Slice(e, 0, 21)
      [] tag = KVM_EXIT_SYSTEM_EVENT -> Slice(e, 0, 4) \o Slice(e, 8, 8)
      [] tag = KVM_EXIT_INTERNAL_ERROR -> Slice(e, 0, 4)
      [] tag = KVM_EXIT_SHUTDOWN -> <<>>

\* C1: for every recognized tag T and payload P, decoding the page (T, P)
\* gives a Pause (the conversion returns), and re-encoding that Pause
\* leaves tag T and a payload equal to P on every field the variant
\* exposes.
C1_RoundTripRecognized ==
    [][/\ (last'.op = "pause" /\ run.exit_reason \in RecognizedTags)
            => decoded' # Panic
       /\ (ReencodeStep /\ run.exit_reason \in RecognizedTags)
            => /\ run'.exit_reason = run.exit_reason
               /\ ExposedBytes(run.exit_reason, run'.exit)
                    = ExposedBytes(run.exit_reason, run.exit)]_vars

RecognizedKinds ==
    {"Unknown", "FailEntry", "Exception", "Io", "Mmio", "SystemEvent",
     "InternalError", "Shutdown"}

\* C2: decoding a page whose tag T is not a recognized one does not panic
\* and returns Invalid(T), which is none of the recognized variants.
C2_UnrecognizedIsInvalid ==
    (last.op = "pause" /\ run.exit_reason \notin RecognizedTags)
        => /\ core_status = "live"
           /\ decoded = Invalid(run.exit_reason)
           /\ decoded.kind \notin RecognizedKinds

\* C2 witness: pause() has decoded a page that carries the TPR-access tag.
C2_Witness ==
    /\ last.op = "pause"
    /\ run.exit_reason = KVM_EXIT_TPR_ACCESS
    /\ decoded = Invalid(KVM_EXIT_TPR_ACCESS)

\* C3: decoding a page with an unrecognized tag T and payload P to
\* Invalid(T) and passing it back to set_pause leaves the page with tag T
\* and payload P.
C3_InvalidReencodeKeepsPayload ==
    [][(ReencodeStep /\ decoded.kind = "Invalid")
            => /\ run'.exit_reason = run.exit_reason
               /\ run'.exit = run.exit]_vars

\* the parts of the page that C4 names: every field but the tag and the
\* union, and the bytes after kvm_dirty_regs
FrameFields ==
    {"request_interrupt_window", "immediate_exit",
     "ready_for_interrupt_injection", "if_flag", "flags", "cr8", "apic_base",
     "kvm_valid_regs", "kvm_dirty_regs", "pad2"}

\* C4: set_pause changes only the tag and the union of the page; every
\* other field, and the bytes after kvm_dirty_regs, keep their value.
C4_SetPauseFrame ==
    [][last'.op = "set_pause"
            => \A f \in FrameFields : run'[f] = run[f]]_vars

\* C5: set_pause(p) followed by pause(), with nothing in between, returns
\* exactly p, for every Pause p, Invalid(v) of any v included.
C5_SetPauseThenPause ==
    (last.op = "pause" /\ last.prev_op = "set_pause")
        => decoded = last.prev_arg

\* C5 as amended: set_pause(p) followed by pause() returns exactly p for
\* every Pause p but Invalid(v) of a recognized tag v; that one reads back
\* as a recognized variant, never as Invalid(v).
C5_SetPauseThenPauseAmended ==
    (last.op = "pause" /\ last.prev_op = "set_pause")
        => IF /\ last.prev_arg.kind = "Invalid"
              /\ last.prev_arg.tag \in RecognizedTags
           THEN decoded.kind \in RecognizedKinds
           ELSE decoded = last.prev_arg

\* C5 witness: pause() has read back an Io exit that set_pause wrote.
C5_Witness ==
    /\ last.op = "pause"
    /\ last.prev_op = "set_pause"
    /\ last.prev_arg.kind = "Io"
    /\ last.prev_arg.direction = "Out"
    /\ decoded = last.prev_arg

----------------------------------------------------------------------------
(* Properties of the capability gate. *)

EnsureOps == {"ensure_capability", "assert_extension"}

\* the missing-capability error each ensure operation raises for cap
MissingCapabilityOf(op, cap) ==
    IF op = "ensure_capability"
    THEN KvmCapabilityFailError(cap)
    ELSE MissingExtensionError(cap)

TransportErrorKinds == {"KvmCapabilityError", "MachineApiError"}

\* C6: an ensure whose query the kernel answers with 0 fails with the
\* missing-capability error naming the capability asked for, an ensure
\* whose query is answered with 1 succeeds, and a query that failed in
\* transport makes the ensure fail with the transport's error, never
\* succeed.
C6_EnsureZeroOneAndTransport ==
    last.op \in EnsureOps =>
        /\ calls = <<KernelCall("kvm_check_extension", last.arg, calls[1].ret)>>
        /\ calls[1].ret = 0 =>
               last.result = MissingCapabilityOf(last.op, last.arg)
        /\ calls[1].ret = 1 => last.result.kind = "Ok"
        /\ IoctlFailed(calls[1].ret) =>
               last.result.kind \in TransportErrorKinds

C6_Witness ==
    /\ last.op = "ensure_capability"
    /\ last.arg = "IoEventFd"
    /\ calls[1].ret = 0
    /\ last.result = KvmCapabilityFailError("IoEventFd")

\* C7 as stated: both ensure operations answer every query value other
\* than 1 with the missing-capability error.
C7_AnyValueButOneFails ==
    (last.op \in EnsureOps /\ calls[1].ret # 1 /\ ~IoctlFailed(calls[1].ret))
        => last.result = MissingCapabilityOf(last.op, last.arg)

\* C7 as the code has it: Capability::ensure_capability answers every
\* query value other than 1 with the missing-capability error;
\* Machine::assert_extension answers only 0 with it and hands every other
\* value back as its success.
C7_EnsureCapabilityStrictAssertExtensionNonZero ==
    (last.op \in EnsureOps /\ ~IoctlFailed(calls[1].ret)) =>
        IF last.op = "ensure_capability"
        THEN last.result = IF calls[1].ret = 1
                           THEN Ok("unit")
                           ELSE KvmCapabilityFailError(last.arg)
        ELSE last.result = IF calls[1].ret = 0
                           THEN MissingExtensionError(last.arg)
                           ELSE Ok(calls[1].ret)

C7_Witness ==
    /\ last.op = "ensure_capability"
    /\ calls[1].ret > 1
    /\ last.result = KvmCapabilityFailError(last.arg)

\* the capability each gated operation asks for, and the kernel call it
\* is there to make
GateOf ==
    [create_irqchip |-> "IrqChip", set_tss_address |-> "SetTssAddress",
     set_identity_address |-> "SetIdentityMapAddress"]

KernelCallOf ==
    [create_irqchip |-> "kvm_create_irqchip",
     set_tss_address |-> "kvm_set_tss_addr",
     set_identity_address |-> "kvm_set_identity_map_addr"]

GatedKernelCalls == {KernelCallOf[op] : op \in DOMAIN KernelCallOf}

\* C8: a gated operation on a machine without its capability returns the
\* missing-capability error naming that capability and issues no gated
\* kernel call; a gated kernel call is only ever issued second, after a
\* query of the operation's own capability that the kernel answered with
\* a non-zero value.
C8_GatedOperations ==
    /\ \A i \in DOMAIN calls :
        calls[i].call \in GatedKernelCalls =>
            /\ last.op \in DOMAIN GateOf
            /\ calls[i].call = KernelCallOf[last.op]
            /\ i = 2
            /\ calls[1].call = "kvm_check_extension"
            /\ calls[1].arg = GateOf[last.op]
            /\ calls[1].ret = caps[GateOf[last.op]]
            /\ caps[GateOf[last.op]] # 0
    /\ (last.op \in DOMAIN GateOf /\ calls[1].ret = 0) =>
            /\ last.result = MissingExtensionError(GateOf[last.op])
            /\ Len(calls) = 1

C8_Witness ==
    /\ last.op = "create_irqchip"
    /\ caps["IrqChip"] = 0
    /\ calls = <<KernelCall("kvm_check_extension", "IrqChip", 0)>>
    /\ last.result = MissingExtensionError("IrqChip")

----------------------------------------------------------------------------
(* Properties of the notification channels. *)

\* C9: Machine::create_ioeventfd issues the kernel's ioeventfd
\* registration only on a machine that has the IoEventFd capability; on a
\* machine without it no registration is issued and no handle comes back.
C9_CreateIoEventFdNeedsCapability ==
    (last.op = "create_ioeventfd" /\ caps["IoEventFd"] = 0) =>
        /\ \A i \in DOMAIN calls : calls[i].call # "kvm_ioeventfd"
        /\ last.result.kind # "Ok"

\* the one call a release of handle h has to make
DeassignCallOf(h, ret) ==
    IF h.kind = "IoEventFd"
    THEN KernelCall("kvm_ioeventfd",
                    [addr |-> h.address, len |-> h.length,
                     datamatch |-> h.data, fd |-> h.fd,
                     flags |-> h.flags \cup {"DEASSIGN"}], ret)
    ELSE KernelCall("kvm_irqfd",
                    [gsi |-> h.gsi, fd |-> h.fd,
                     flags |-> h.flags \cup {"DEASSIGN"}], ret)

\* C10: every handle a create returned has, once released, had exactly
\* one deassign call issued for its registration, and none before; the
\* release issues that call and no other.
C10_ReleaseDeassignsOnce ==
    /\ \A h \in DOMAIN handles :
        handles[h].deassigns = IF handles[h].state = "dropped" THEN 1 ELSE 0
    /\ last.op = "drop" =>
        /\ Len(calls) >= 1
        /\ calls[1] = DeassignCallOf(last.arg, calls[1].ret)
        /\ \A i \in DOMAIN calls \ {1} : calls[i].call = "close"

\* C12: the release of an IoEventFd issues a deassign call with the
\* address, length, datamatch and descriptor of the registration call and
\* its flags plus DEASSIGN, and the descriptor is closed only after that
\* call; the deassign call of Core::remove_ioeventfd carries the same
\* values and is made on a descriptor that is open.
C12_DeassignBeforeClose ==
    /\ (last.op = "create_ioeventfd" /\ last.result.kind = "Ok") =>
        LET h == handles[last.result.value]
        IN calls[Len(calls)] =
            KernelCall("kvm_ioeventfd",
                       [addr |-> h.address, len |-> h.length,
                        datamatch |-> h.data, fd |-> h.fd,
                        flags |-> h.flags], 0)
    /\ (last.op = "drop" /\ last.arg.kind = "IoEventFd") =>
        \E d \in DOMAIN calls :
            /\ calls[d].call = "kvm_ioeventfd"
            /\ calls[d].arg =
                    [addr |-> last.arg.address, len |-> last.arg.length,
                     datamatch |-> last.arg.data, fd |-> last.arg.fd,
                     flags |-> last.arg.flags \cup {"DEASSIGN"}]
            /\ \E c \in DOMAIN calls :
                    calls[c].call = "close" /\ calls[c].arg = last.arg.fd
            /\ \A c \in DOMAIN calls :
                    (calls[c].call = "close" /\ calls[c].arg = last.arg.fd)
                        => d < c
    /\ (last.op = "Core::create_ioeventfd" /\ last.result.kind = "Ok") =>
        LET h == handles[last.result.value]
        IN calls = <<KernelCall("kvm_ioeventfd",
                        CoreIoEventFdArg(h.addr, h.len, h.fd,
                                         IoAddress_flags(h.addr)), 0)>>
    /\ last.op = "Core::remove_ioeventfd" =>
        /\ Len(calls) = 1
        /\ calls[1].call = "kvm_ioeventfd"
        /\ calls[1].arg =
                CoreIoEventFdArg(last.arg.addr, last.arg.len, last.arg.fd,
                    IoAddress_flags(last.arg.addr) \cup {"DEASSIGN"})
        /\ last.arg.fd \in open_fds

C12_Witness ==
    /\ last.op = "drop"
    /\ last.arg.kind = "IoEventFd"
    /\ last.arg.flags = {"PIO", "DATAMATCH"}
    /\ last.arg.address = 1
    /\ last.arg.fd \notin open_fds
    /\ Len(calls) = 2

C10_Witness ==
    /\ Len(handles) = 2
    /\ handles[1].kind = "IoEventFd"
    /\ handles[2].kind = "IrqFd"
    /\ \A h \in DOMAIN handles :
        handles[h].state = "dropped" /\ handles[h].deassigns = 1
    /\ last.op = "drop"
    /\ IoctlFailed(calls[1].ret)

----------------------------------------------------------------------------
(* Properties of the value operations. *)

\* the address one above v, and the one below it, counted byte by byte
RECURSIVE SuccFrom(_, _)
SuccFrom(v, i) ==
    IF v[i] < 255 THEN [v EXCEPT ![i] = @ + 1]
    ELSE SuccFrom([v EXCEPT ![i] = 0], i + 1)

RECURSIVE PredFrom(_, _)
PredFrom(v, i) ==
    IF v[i] > 0 THEN [v EXCEPT ![i] = @ - 1]
    ELSE PredFrom([v EXCEPT ![i] = 255], i + 1)

Lowest == [i \in 1..8 |-> 0]
Highest == [i \in 1..8 |-> 255]
OutOfRange == <<>>

\* the address d above v (below it for a negative d), or OutOfRange when
\* there is no such u64
RECURSIVE Moved(_, _)
Moved(v, d) ==
    IF d = 0 THEN v
    ELSE IF d > 0
         THEN IF v = Highest THEN OutOfRange ELSE Moved(SuccFrom(v, 1), d - 1)
         ELSE IF v = Lowest THEN OutOfRange ELSE Moved(PredFrom(v, 1), d + 1)

\* by how much the call in last moves its address
Delta == IF last.op = "add" THEN last.arg.rhs ELSE 0 - last.arg.rhs

\* C15: adding an offset n to an address of either kind, or subtracting
\* it, gives the address of the same kind whose value is the value plus
\* n (minus n), for every offset type and for negative n as well,
\* whenever that value is a u64; and the registration flags of an
\* address have PIO exactly for the Port kind.
C15_ArithmeticKeepsKind ==
    /\ (/\ last.op \in {"add", "sub"}
        /\ last.result # Pending
        /\ Moved(last.arg.addr.value, Delta) # OutOfRange)
            => last.result =
                Ok([kind |-> last.arg.addr.kind,
                    value |-> Moved(last.arg.addr.value, Delta)])
    /\ (last.op = "flags" /\ last.result # Pending)
            => ("PIO" \in last.result.value <=> last.arg.kind = "Port")

\* C16: verify_api_version succeeds exactly when the kernel reports
\* version 12; for any other version v it fails with
\* InvalidVersionError(v, 12); and when the query itself fails it fails
\* with the query's error, not with a version mismatch.
C16_VerifyApiVersion ==
    (last.op = "verify_api_version" /\ last.result # Pending) =>
        /\ Len(calls) = 1
        /\ calls[1].call = "kvm_get_api_version"
        /\ last.result.kind = "Ok" <=> calls[1].ret = 12
        /\ calls[1].ret \notin {12, 0 - 1} =>
                last.result = InvalidVersionError(calls[1].ret, 12)
        /\ calls[1].ret = 0 - 1 =>
                last.result = SystemApiError("kvm_get_api_version")

C16_Witness ==
    /\ last.op = "verify_api_version"
    /\ calls = <<KernelCall("kvm_get_api_version", "none", 11)>>
    /\ last.result = InvalidVersionError(11, 12)

\* C19: into gives the kernel constant of each of the nine states,
\* from(into(s)) = s, and from returns a state for every u32 value a
\* kernel reports, the values after the nine included: it does not
\* abort.
C19_MpStatePassThrough ==
    /\ (last.op = "MpState::into" /\ last.result # Pending)
            => last.result = Ok(MpStateCode[last.arg])
    /\ last.op = "MpState::from(into)" => last.result = Ok(last.arg)
    /\ (last.op = "MpState::from" /\ last.result # Pending)
            => last.result.kind = "Ok"

----------------------------------------------------------------------------
(* Properties of the notification channels of a core. *)

\* C11: once the handle of a registration made through
\* Core::create_ioeventfd is gone, exactly one deassign call has been
\* issued for the registration.
C11_OneDeassignPerRegistration ==
    \A h \in DOMAIN handles :
        (handles[h].kind = "CoreIoEventFd" /\ handles[h].state = "dropped")
            => handles[h].deassigns = 1

----------------------------------------------------------------------------
(* Properties of the notifications. *)

\* C13: IoEventFd::read_value, called with no notification pending, does
\* not return until one arrives; it returns ReadIoEventFdError only when
\* the read fails, and the counter's value otherwise.
C13_ReadValueBlocks ==
    last.op = "read_value" =>
        /\ last.result = ReadIoEventFdError => last.arg.failed
        /\ (last.arg.counter = 0 /\ ~last.arg.failed)
                => last.result.kind = "Blocked"
        /\ (last.arg.counter > 0 /\ ~last.arg.failed)
                => last.result = Ok(ToBytes(last.arg.counter, 8))

\* C14: a poll of the notification stream never returns the end of the
\* stream, whatever the reads gave before and give now, and an error of the
\* read is returned as an error.
C14_StreamNeverEnds ==
    last.op \in {"IoEventStream::poll", "EventFd::poll"} =>
        /\ last.result # Ok(Ready(None))
        /\ last.arg.read.kind = "Err" <=> last.result.kind # "Ok"
        /\ (last.op = "IoEventStream::poll" /\ last.arg.read.kind = "Err")
                => last.result = ReadIoEventFdError

C14_Witness ==
    /\ last.op = "IoEventStream::poll"
    /\ last.arg.len = 3
    /\ last.arg.read.kind = "Ready"
    /\ Len(last.arg.read.bytes) = 0
    /\ last.result = Ok(NotReady)
    /\ stream.len = 3

----------------------------------------------------------------------------
(* Properties of the memory slabs. *)

\* C18: a read_bytes of the range a write_bytes has just written, the
\* range lying inside the slab, fills dest with the bytes written.
C18_SlabRoundTrip ==
    (/\ last.op = "read_bytes"
     /\ last.arg.after # <<>>
     /\ last.arg.at + last.arg.len <= Slab_len(slab))
        => last.result = Ok(last.arg.after[1])

C18_Witness ==
    /\ last.op = "read_bytes"
    /\ last.arg.after # <<>>
    /\ Slab_len(slab) > 2
    /\ last.arg.at = Slab_len(slab) - 1
    /\ last.arg.after = <<(<<1>>)>>
    /\ last.result = Ok(<<1>>)
    /\ slab[1] = 1

----------------------------------------------------------------------------
(* Properties of the lifecycle state of a core. *)

\* C20: Core::mp_state returns the lifecycle state the kernel reported for
\* the core, and a set_mp_state the kernel accepted leaves the kernel with
\* the state it was given.
C20_MpStateReported ==
    /\ (/\ last.op = "mp_state"
        /\ ~IoctlFailed(calls[1].ret)
        /\ \E s \in MpStates : MpStateCode[s] = last.arg.reported)
            => /\ last.result.kind = "Ok"
               /\ MpStateCode[last.result.value] = last.arg.reported
    /\ (last.op = "set_mp_state" /\ last.result.kind = "Ok")
            => mp_state = MpStateCode[last.arg]

----------------------------------------------------------------------------
(* Properties of the run loop of a core. *)

\* C29: Core::pause returns a Pause for every page that carries the Io or
\* the Mmio tag, whatever the direction byte or the is_write byte holds;
\* the conversion never panics.
C29_PauseTotalOnIoAndMmio ==
    (last.op = "pause" /\ run.exit_reason \in {KVM_EXIT_IO, KVM_EXIT_MMIO})
        => /\ core_status = "live"
           /\ decoded.kind = IF run.exit_reason = KVM_EXIT_IO
                             THEN "Io" ELSE "Mmio"


\* C21: Core::run issues kvm_run exactly once.  When the call fails, also
\* when it was interrupted, run returns the core-operation error that names
\* kvm_run and makes no second call; when it succeeds run returns success,
\* and the Pause read next is the decoding of the page as it is then.
C21_RunIssuesKvmRunOnce ==
    /\ last.op = "run" =>
          /\ Len(calls) = 1
          /\ calls[1].call = "kvm_run"
          /\ IoctlFailed(last.arg.ret) =>
                last.result = KvmCoreOperationError("kvm_run")
          /\ ~IoctlFailed(last.arg.ret) => last.result = Ok("unit")
    /\ (last.op = "pause" /\ last.prev_op = "run") =>
          /\ core_status = "live"
          /\ decoded = Pause_from(run)
          /\ decoded.kind \notin {"None", "Panic"}

\* an interrupted kvm_run has been returned as a failure of Core::run
C21_InterruptedRunReturned ==
    /\ last.op = "run"
    /\ last.arg.errno = "EINTR"
    /\ last.result = KvmCoreOperationError("kvm_run")

\* the kernel calls of the given name among those of the last operation
CallsNamed(name) == {i \in DOMAIN calls : calls[i].call = name}

\* C22: The control page is unmapped once, when the core is released, and
\* the descriptor of the core is closed once, then.  While the core lives,
\* whatever pause, get_run, set_pause and run did, nothing has unmapped the
\* page or closed the descriptor; once the core is released no operation
\* reads or decodes the page.
C22_PageUnmappedOnceAtRelease ==
    /\ core_status = "live" =>
          /\ CoreFd \in open_fds
          /\ CallsNamed("munmap") = {}
          /\ CallsNamed("close") = {}
    /\ last.op = "drop" =>
          /\ core_status # "live"
          /\ Cardinality(CallsNamed("munmap")) = 1
          /\ Cardinality(CallsNamed("close")) = 1
    /\ core_status # "live" =>
          /\ last.op = "drop"
          /\ ~ENABLED (pause \/ SetPauseDecoded \/ CoreGetRun \/ CoreRun
                       \/ CoreDrop)

\* a core that ran and was read has been released, both steps succeeding
C22_CoreReleased ==
    /\ last.op = "drop"
    /\ last.prev_op \in {"pause", "get_run", "set_pause"}
    /\ core_status = "released"
    /\ CoreFd \notin open_fds

----------------------------------------------------------------------------
(* Properties of the release of resources. *)

\* C23: When a step of the release of a resource fails (the kernel call
\* that deregisters a notification channel, or the close of a descriptor),
\* the drop panics: the failure is neither returned nor ignored.
C23_ReleaseFailureIsFatal ==
    last.op = "drop" =>
        \A i \in DOMAIN calls :
            IoctlFailed(calls[i].ret) => last.result.kind = "Panic"

----------------------------------------------------------------------------
(* Properties of the borrowed view of the exit union. *)

\* C24: Data::exit returns None for a page exactly when the Pause decoding
\* of that page is Invalid of its tag: the two decoders recognise the same
\* tags.
C24_ExitNoneIffPauseInvalid ==
    last.op = "Data::exit" =>
        (last.result = None <=> Pause_from(run) = Invalid(run.exit_reason))

\* two Exit values of the same variant whose fields are equal
SameExit(a, b) == a.kind = b.kind /\ ExitFields(a) = ExitFields(b)

\* C25: For each variant of Exit, split gives the tag of the variant and a
\* union whose member holds the content of the value, and Exit::from of the
\* two gives the variant and the content back; no two variants have the same
\* tag; DataMut::set_exit(e) followed by exit() decodes to e, and cr8 is as
\* it was.
C25_ExitSplitFromRoundTrip ==
    /\ \A a \in ExitVariants, b \in ExitVariants :
            ExitMembers[a].tag = ExitMembers[b].tag => a = b
    /\ last.op = "DataMut::set_exit" =>
          /\ run.exit_reason = ExitMembers[last.arg.exit.kind].tag
          /\ Exit_from(run.exit_reason, run.exit).some
          /\ SameExit(Exit_from(run.exit_reason, run.exit).value,
                      last.arg.exit)
          /\ run.cr8 = last.arg.cr8
    /\ (last.op = "DataMut::exit" /\ last.prev_op = "DataMut::set_exit") =>
          /\ last.result.some
          /\ SameExit(last.result.value, last.prev_arg.exit)
          /\ run.cr8 = last.prev_arg.cr8

\* an Mmio exit, whose member has padding, has been encoded and decoded
C25_MmioEncodedAndDecoded ==
    /\ last.op = "DataMut::exit"
    /\ last.prev_op = "DataMut::set_exit"
    /\ last.prev_arg.exit.kind = "Mmio"
    /\ last.result.some
    /\ last.result.value.content # last.prev_arg.exit.content

----------------------------------------------------------------------------
(* Properties of the dirty log. *)

\* C26: Machine::dirty_log counts ceil(size / 4096) pages (10 -> 1,
\* 4096 -> 1, 4100 -> 2, 8191 -> 2, 8192 -> 2, 8193 -> 3), and the buffer
\* of 64-bit words it hands to the kernel has a bit for every page:
\* 64 * words >= ceil(size / 4096), so it is not empty for a slot that is
\* not.
C26_DirtyLogBufferCoversPages ==
    /\ dirty_log_pages(10) = 1 /\ dirty_log_pages(4096) = 1
    /\ dirty_log_pages(4100) = 2 /\ dirty_log_pages(8191) = 2
    /\ dirty_log_pages(8192) = 2 /\ dirty_log_pages(8193) = 3
    /\ last.op = "dirty_log" =>
          LET size == last.arg.size
              ceil == IF size % 4096 = 0 THEN size \div 4096
                      ELSE size \div 4096 + 1
          IN /\ dirty_log_pages(size) = ceil
             /\ 64 * calls[1].arg.words >= ceil
             /\ size > 0 => calls[1].arg.words > 0

----------------------------------------------------------------------------
(* Properties of the memory regions. *)

\* the options a and b differ at most in the flag of the given bit
SameButFlag(a, b, bit) ==
    /\ a.slot = b.slot
    /\ a.source = b.source
    /\ a.addr = b.addr
    /\ \A other \in {KVM_MEM_LOG_DIRTY_PAGES, KVM_MEM_READONLY} \ {bit} :
            HasFlag(a.flags, other) <=> HasFlag(b.flags, other)

\* C27: The structure handed to the kernel for a region carries the slot,
\* the flag bits and the guest address of the region unchanged; its
\* memory_size is the length of the backing slice and its userspace_addr
\* the base address of the slice, both 0 when the region has no source.
\* RegionOptions::new(slot) has no flag, no source and guest address 0; the
\* conversion to a Region and back gives the same options; setting or
\* clearing one flag changes nothing else.
C27_RegionDescriptorCarriesFields ==
    /\ last.op = "set_region" =>
          LET o == last.arg
              umr == last.result.out.value
          IN /\ umr.slot = o.slot
             /\ umr.flags = o.flags
             /\ umr.guest_phys_addr = o.addr
             /\ o.source.some =>
                   /\ umr.memory_size = o.source.value.len
                   /\ umr.userspace_addr = o.source.value.base
             /\ ~o.source.some =>
                   /\ umr.memory_size = 0
                   /\ umr.userspace_addr = 0
    /\ last.op = "new" =>
          /\ ~HasFlag(Options.flags, KVM_MEM_LOG_DIRTY_PAGES)
          /\ ~HasFlag(Options.flags, KVM_MEM_READONLY)
          /\ Options.source = None
          /\ Options.addr = ToBytes(0, 8)
    /\ last.op = "into" => Options = last.arg
    /\ last.op = "log_dirty_pages" =>
          /\ HasFlag(Options.flags, KVM_MEM_LOG_DIRTY_PAGES)
          /\ SameButFlag(Options, last.arg, KVM_MEM_LOG_DIRTY_PAGES)
    /\ last.op = "disable_log_dirty_pages" =>
          /\ ~HasFlag(Options.flags, KVM_MEM_LOG_DIRTY_PAGES)
          /\ SameButFlag(Options, last.arg, KVM_MEM_LOG_DIRTY_PAGES)
    /\ last.op = "read_only" =>
          /\ HasFlag(Options.flags, KVM_MEM_READONLY)
          /\ SameButFlag(Options, last.arg, KVM_MEM_READONLY)
    /\ last.op = "disable_read_only" =>
          /\ ~HasFlag(Options.flags, KVM_MEM_READONLY)
          /\ SameButFlag(Options, last.arg, KVM_MEM_READONLY)

\* a region with both flags, a source and a guest address other than 0 has
\* been turned into the structure for the kernel
C27_BackedRegionDescribed ==
    /\ last.op = "set_region"
    /\ last.arg.source.some
    /\ last.arg.source.value.len > 0
    /\ HasFlag(last.arg.flags, KVM_MEM_LOG_DIRTY_PAGES)
    /\ HasFlag(last.arg.flags, KVM_MEM_READONLY)
    /\ last.arg.addr # ToBytes(0, 8)

----------------------------------------------------------------------------
(* Properties of the notification stream. *)

\* C28: Between polls an IoEventStream holds 0 to 7 bytes.  A poll yields a
\* value exactly when the bytes held and the bytes its read delivered make
\* eight; the value is those eight bytes in the order they arrived, and the
\* stream then holds none.  Otherwise the stream holds the bytes it held
\* followed by the bytes delivered: none is dropped or counted twice.
C28_StreamYieldsAtEightBytes ==
    /\ stream.len \in 0..7
    /\ last.op = "IoEventStream::poll" =>
          LET got == IF last.arg.read.kind = "Ready"
                     THEN last.arg.read.bytes ELSE <<>>
              all == last.arg.held \o got
          IN /\ Len(all) <= 8
             /\ Len(all) = 8 <=>
                    (last.result.kind = "Ok" /\ last.result.value # NotReady)
             /\ Len(all) = 8 =>
                    /\ last.result = Ok(Ready(Some(all)))
                    /\ stream.len = 0
             /\ Len(all) < 8 =>
                    /\ stream.len = Len(all)
                    /\ SubSeq(stream.buf, 1, stream.len) = all

\* a value has been yielded whose bytes came from more than one read
C28_ValueFromSeveralReads ==
    /\ last.op = "IoEventStream::poll"
    /\ Len(last.arg.held) \in 1..7
    /\ last.arg.read.kind = "Ready"
    /\ Len(last.arg.read.bytes) = 8 - Len(last.arg.held)
    /\ last.result.kind = "Ok"
    /\ last.result.value # NotReady
    /\ stream.len = 0

----------------------------------------------------------------------------
(* Properties of a failed creation of a notification channel. *)

\* the step is a Machine::create_ioeventfd that returned an error
FailedCreate == last'.op = "create_ioeventfd" /\ last'.result.kind # "Ok"

\* C30: A Machine::create_ioeventfd that fails leaves nothing behind.  When
\* the registration fails, the error is returned, no handle exists for it,
\* no deassign call is made, and the descriptor just created is closed
\* once; when the creation of the eventfd fails, no registration call is
\* made at all.
C30_FailedCreateLeavesNothing ==
    [][FailedCreate =>
          /\ handles' = handles
          /\ open_fds' = open_fds
          /\ \A i \in DOMAIN calls' :
                calls'[i].call = "kvm_ioeventfd" =>
                    "DEASSIGN" \notin calls'[i].arg.flags
          /\ last'.result = CreateIoEventFdError => calls' = <<>>
          /\ last'.result # CreateIoEventFdError =>
                /\ Len(calls') = 2
                /\ calls'[1].call = "kvm_ioeventfd"
                /\ IoctlFailed(calls'[1].ret)
                /\ last'.result = MachineApiError("kvm_ioeventfd")
                /\ calls'[2] = CloseOf(calls'[1].arg.fd)
                /\ calls'[1].arg.fd \notin open_fds']_vars

\* a registration has failed on a machine that holds a live handle
C30_RegistrationFailed ==
    /\ last.op = "create_ioeventfd"
    /\ last.result = MachineApiError("kvm_ioeventfd")
    /\ Len(calls) = 2
    /\ \E h \in DOMAIN handles : handles[h].state = "live"
====
